---------------------------- MODULE Spec2Model ----------------------------
(***************************************************************************)
(* Verification model of the Sp3ctra code-review tooling                   *)
(* (scripts/code_review): the orchestrator that runs the review agents and *)
(* merges their issues, the duplication detector's text normaliser, its    *)
(* function extractor and its duplicate classification.                    *)
(***************************************************************************)
EXTENDS Integers, Sequences, FiniteSets, TLC

VARIABLES
    \* ---- CodeReviewOrchestrator and its agents -------------------------
    plan,               \* the corpus as each agent sees it: per agent, per file, what the scan meets
    issues,             \* agent.issues, the accumulator of every agent object
    all_issues,         \* orchestrator.all_issues: severity -> list of {agent, issue}
    individual_reports, \* orchestrator.individual_reports (agent names, in order)
    idx,                \* position of the for loop of run_all_agents
    runs,               \* how many times run_all_agents has been entered
    pc,                 \* "idle" (constructed / returned), "running", "saved", "exited"
    recommendations,    \* the list _generate_recommendations returned to the report
    summary,            \* the summary written to summary.json
    exit_code,          \* what main returned to sys.exit ("none" before it returns)
    \* ---- DuplicationDetectorAgent.normalize_code / get_code_hash --------
    text,               \* a span text (a sequence of characters)
    text2,              \* a second span text, compared with the first
    canon1,             \* normalize_code(text)
    canon2,             \* normalize_code(text2)
    recanon,            \* normalize_code(canon1)
    digest1,            \* get_code_hash(text)
    digest2,            \* get_code_hash(text2)
    npc,                \* "input", "normalized", "renormalized", "hashed"
    \* ---- DuplicationDetectorAgent.extract_functions ---------------------
    lines,              \* content.split('\n') of the file read
    lineNo,             \* i of "for i, line in enumerate(lines, 1)"
    ext,                \* the locals of the loop: current_func, current_func_start,
                        \* brace_count, func_lines, and the functions dict
    epc,                \* "scanning" or "returned"
    \* ---- DuplicationDetectorAgent.find_duplicate_functions --------------
    corpus,             \* the files globbed, in the order they are scanned
    fileIdx,            \* position in the three file loops
    hash_map,           \* digest -> [(file, function name, line)], in insertion order
    dup_issues,         \* self.issues of the duplication agent
    dpc,                \* "scan", "classified"
    \* ---- _generate_recommendations as a function of all_issues ----------
    given_issues,       \* self.all_issues as the function finds it
    given_recs,         \* the list the function returned
    gpc,                \* "called", "returned"
    \* ---- CodeMetricsAgent ------------------------------------------------
    met_files,          \* the .cpp files of vst/source, each its lines (f.readlines())
    lizard,             \* the tool: whether it is installed and what its run gives
    metrics,            \* self.metrics
    met_issues,         \* self.issues of the metrics agent
    score,              \* the quality score of generate_report
    mpc,                \* "start", "files", "lizard", "reported"
    \* ---- ArchitectureReviewAgent.check_rt_audio_safety -------------------
    rt_lines,           \* the lines of vst/source/PluginProcessor.cpp
    rt_body,            \* processblock_code.split('\n'), once the function is found
    rt_i,               \* i of "for i, line in enumerate(lines, 1)"
    rt_issues,          \* self.issues of the architecture agent
    rtpc,               \* "search", "scan", "done"
    \* ---- StaticAnalysisAgent ---------------------------------------------
    sa_tools,           \* the external tools: installed or not, and what each run gives
    sa_file,            \* position of the loop of run_clang_tidy over cpp_files
    sa_issues,          \* self.issues of the static analysis agent
    sa_notes,           \* what run() prints about a tool skipped, timed out or failed
    sapc,               \* "clang-tidy", "cppcheck", "report", "returned"
    \* ---- AIBiasDetectorAgent.check_dead_code -----------------------------
    dead_lines,         \* f.readlines() of the file read
    dead_i,             \* i of "for i, line in enumerate(lines, 1)"
    commented_code_start, \* first line of the current block (0 stands for None)
    commented_lines,    \* number of lines of the current block
    dead_issues,        \* self.issues of the AI bias agent
    deadpc,             \* "scanning", "returned"
    \* ---- DuplicationDetectorAgent.find_unused_stubs ----------------------
    stub_exists,        \* stub_file.exists()
    stub_functions,     \* the names re.findall finds in global_stubs.c
    vst_calls,          \* the names with a site "name(" in vst/source/*.cpp
    other_calls,        \* the names with a site "name(" in the other files
    stub_i,             \* position of the loop over stub_functions
    stub_issues,        \* self.issues of the duplication agent
    stubpc,             \* "start", "checking", "returned"
    \* ---- AIBiasDetectorAgent.check_magic_numbers -------------------------
    magic_lines,        \* f.readlines() of the file read
    magic_i,            \* i of "for i, line in enumerate(lines, 1)"
    magic_issues,       \* self.issues of the AI bias agent
    magicpc,            \* "scanning", "returned"
    \* ---- UIConsistencyAgent.check_layout_consistency ---------------------
    lay_lines,          \* content.split('\n') of the file read
    lay_i,              \* i of "for i, line in enumerate(lines, 1)"
    lay_issues,         \* self.issues of the UI agent
    laypc               \* "scanning", "returned"

orchVars == <<plan, issues, all_issues, individual_reports, idx, runs, pc,
              recommendations, summary, exit_code>>
normVars == <<text, text2, canon1, canon2, recanon, digest1, digest2, npc>>

extVars == <<lines, lineNo, ext, epc>>
dupVars == <<corpus, fileIdx, hash_map, dup_issues, dpc>>
recVars == <<given_issues, given_recs, gpc>>
metVars == <<met_files, lizard, metrics, met_issues, score, mpc>>
rtVars == <<rt_lines, rt_body, rt_i, rt_issues, rtpc>>
saVars == <<sa_tools, sa_file, sa_issues, sa_notes, sapc>>
deadVars == <<dead_lines, dead_i, commented_code_start, commented_lines,
              dead_issues, deadpc>>
stubVars == <<stub_exists, stub_functions, vst_calls, other_calls, stub_i,
              stub_issues, stubpc>>
magicVars == <<magic_lines, magic_i, magic_issues, magicpc>>
layVars == <<lay_lines, lay_i, lay_issues, laypc>>

\* what main writes after run_all_agents
mainVars == <<recommendations, summary, exit_code>>

vars == <<orchVars, normVars, extVars, dupVars, recVars, metVars, rtVars,
          saVars, deadVars, stubVars, magicVars, layVars>>

\* what the steps of one component leave alone
notOrch == <<normVars, extVars, dupVars, recVars, metVars, rtVars, saVars,
             deadVars, stubVars, magicVars, layVars>>
notNorm == <<orchVars, extVars, dupVars, recVars, metVars, rtVars, saVars,
             deadVars, stubVars, magicVars, layVars>>
notExt == <<orchVars, normVars, dupVars, recVars, metVars, rtVars, saVars,
            deadVars, stubVars, magicVars, layVars>>
notDup == <<orchVars, normVars, extVars, recVars, metVars, rtVars, saVars,
            deadVars, stubVars, magicVars, layVars>>
notRec == <<orchVars, normVars, extVars, dupVars, metVars, rtVars, saVars,
            deadVars, stubVars, magicVars, layVars>>
notMet == <<orchVars, normVars, extVars, dupVars, recVars, rtVars, saVars,
            deadVars, stubVars, magicVars, layVars>>
notRt == <<orchVars, normVars, extVars, dupVars, recVars, metVars, saVars,
           deadVars, stubVars, magicVars, layVars>>
notSa == <<orchVars, normVars, extVars, dupVars, recVars, metVars, rtVars,
           deadVars, stubVars, magicVars, layVars>>
notDead == <<orchVars, normVars, extVars, dupVars, recVars, metVars,
             rtVars, saVars, stubVars, magicVars, layVars>>
notStub == <<orchVars, normVars, extVars, dupVars, recVars, metVars,
             rtVars, saVars, deadVars, magicVars, layVars>>
notMagic == <<orchVars, normVars, extVars, dupVars, recVars, metVars,
              rtVars, saVars, deadVars, stubVars, layVars>>
notLay == <<orchVars, normVars, extVars, dupVars, recVars, metVars, rtVars,
            saVars, deadVars, stubVars, magicVars>>

(***************************************************************************)
(* Bounds of the model.                                                    *)
(***************************************************************************)
MaxRuns == 2
\* longest span text normalised
MaxLen == 5
\* longest span text that is compared with its variants
MaxPairLen == 3
\* most lines of a file given to extract_functions alone
MaxLines == 6
\* most lines of each file of the corpus of find_duplicate_functions
MaxFileLines == 2

(***************************************************************************)
(* CodeReviewOrchestrator (run_code_review.py)                             *)
(***************************************************************************)
ArchitectureReview == "Architecture Review"
CodeDuplication == "Code Duplication"
AIBiasDetection == "AI Bias Detection"
UIConsistency == "UI Consistency"

\* self.agents, in registration order
agents == <<ArchitectureReview, CodeDuplication, AIBiasDetection, UIConsistency>>

AgentSet == {agents[i] : i \in 1..Len(agents)}

Severities == {"ERROR", "WARNING", "INFO"}

\* The two files of the plugin tree every agent loops over, in glob order:
\* FileY is read first, FileX second.
FileY == "vst/source/PluginEditor.cpp"
FileX == "vst/source/PluginProcessor.cpp"
Files == <<FileY, FileX>>

\* What an agent can report on one file: the (category, severity, line) of
\* calls of add_issue in the agents.
AgentKinds(a) ==
    CASE a = ArchitectureReview ->
            { [category |-> "Architecture - Global State", severity |-> "WARNING", line |-> 12],
              [category |-> "Architecture - Audio Layer", severity |-> "ERROR", line |-> 7] }
      [] a = CodeDuplication ->
            { [category |-> "Code Duplication - Config Handling", severity |-> "WARNING", line |-> 0],
              [category |-> "Unused Code - Stubs", severity |-> "INFO", line |-> 0] }
      [] a = AIBiasDetection ->
            { [category |-> "AI Bias - Placeholder Code", severity |-> "WARNING", line |-> 30] }
      [] a = UIConsistency ->
            { [category |-> "UI - Layout Hardcoding", severity |-> "WARNING", line |-> 21] }

\* What the scan of one file by one agent meets: nothing, a finding of one of
\* the agent's kinds, or an exception (an unreadable file: open(...,
\* encoding='utf-8') and f.read() are not guarded).
Outcomes(a) == {"clean", "raise"} \cup {k.category : k \in AgentKinds(a)}

KindOf(a, cat) == CHOOSE k \in AgentKinds(a) : k.category = cat

\* The issue dict add_issue builds.  The duplication agent's issues carry
\* 'locations' and no 'file'/'line': the orchestrator reads them with
\* issue.get('file', 'N/A') and issue.get('line', 0).
Issue(a, cat, f) ==
    [severity |-> KindOf(a, cat).severity,
     category |-> cat,
     file     |-> IF a = CodeDuplication THEN "N/A" ELSE Files[f],
     line     |-> KindOf(a, cat).line]

\* add_issue: self.issues.append({...})
add_issue(list, issue) == Append(list, issue)

\* agent.run(): the checks visit the files in order and append to self.issues
\* (which is created once, in __init__, and never cleared); an exception
\* leaves run() at once, with what was appended so far still in self.issues.
RECURSIVE Scan(_, _, _)
Scan(a, f, acc) ==
    IF f > Len(Files) THEN [issues |-> acc, raised |-> FALSE]
    ELSE IF plan[a][f] = "raise" THEN [issues |-> acc, raised |-> TRUE]
    ELSE IF plan[a][f] = "clean" THEN Scan(a, f + 1, acc)
    ELSE Scan(a, f + 1, add_issue(acc, Issue(a, plan[a][f], f)))

run(a) == Scan(a, 1, issues[a])

\* for issue in agent.issues: self.all_issues[severity].append({agent, issue})
RECURSIVE Collect(_, _, _)
Collect(all, a, iss) ==
    IF iss = <<>> THEN all
    ELSE Collect([all EXCEPT ![Head(iss).severity] =
                        Append(@, [agent |-> a, issue |-> Head(iss)])],
                 a, Tail(iss))

\* The loop with the try/except around it instead of inside it: the first
\* failure ends the loop.
AbortAfterFailure(i) == Len(agents) + 1

\* A loop whose except clause also gives up the agent that follows.
SkipAfterFailure(i) == IF i < Len(agents) THEN i + 2 ELSE i + 1

\* Where the loop goes after the except clause: the try/except is inside the
\* for loop, so the next agent is run.
AfterFailure(i) == i + 1

(***************************************************************************)
(* CodeReviewOrchestrator._generate_recommendations, save_reports and main *)
(* (run_code_review.py)                                                    *)
(***************************************************************************)
\* The texts _generate_recommendations appends (their first sentences).
RecRtSafety == "CRITICAL: Fix RT-audio safety violations in processBlock()."
RecArchitecture == "Review architectural separation of concerns."
RecDuplication == "Refactor duplicated code into shared libraries."
RecAIBias == "Clean up AI-generated code artifacts (excessive comments, placeholders, dead code)."
RecUI == "Standardize UI components (colors, fonts, layouts)."
RecConfig == "Ensure all VST configuration uses APVTS for DAW integration."
RecInstanceIsolation == "Verify that multiple VST instances can coexist without conflicts."
RecGood == "Code quality looks good! Continue maintaining best practices."

\* The keys the function looks for inside a category that are found in it:
\* "key in cat" on the categories the agents of the repository emit.
KeysIn(cat) ==
    CASE cat \in {"Architecture - Global State", "Architecture - Audio Layer",
                  "LLM - Architecture"} -> {"Architecture"}
      [] cat = "Architecture - Instance Isolation" -> {"Architecture", "Instance Isolation"}
      [] cat = "Architecture - Configuration" -> {"Architecture", "Config"}
      [] cat = "Code Duplication - Config Handling" -> {"Duplication", "Config"}
      [] cat = "Code Duplication - Cross-boundary" -> {"Duplication"}
      [] cat = "AI Bias - Placeholder Code" -> {"AI Bias"}
      [] cat \in {"UI - Layout Hardcoding", "UI - Thread Safety"} -> {"UI"}
      [] cat \in {"RT-Audio Safety", "LLM - RT-Audio Safety"} -> {"RT-Audio Safety"}
      [] OTHER -> {}

\* set(item['issue'].get('category', '') for item in self.all_issues[sev])
Categories(all, sev) == {all[sev][k].issue.category : k \in 1..Len(all[sev])}

\* any(key in cat for cat in categories)
AnyHas(key, categories) == \E cat \in categories : key \in KeysIn(cat)

\* recommendations.append(text) under "if cond"
AppendIf(recs, cond, rec) == IF cond THEN Append(recs, rec) ELSE recs

\* The list as it stands before "if not recommendations": one test after
\* the other, the first on the ERROR categories and the others on the
\* WARNING categories.
CategoryRecommendations(all) ==
    LET error_categories == Categories(all, "ERROR")
        warning_categories == Categories(all, "WARNING")
        r1 == AppendIf(<<>>, AnyHas("RT-Audio Safety", error_categories), RecRtSafety)
        r2 == AppendIf(r1, AnyHas("Architecture", warning_categories), RecArchitecture)
        r3 == AppendIf(r2, AnyHas("Duplication", warning_categories), RecDuplication)
        r4 == AppendIf(r3, AnyHas("AI Bias", warning_categories), RecAIBias)
        r5 == AppendIf(r4, AnyHas("UI", warning_categories), RecUI)
        r6 == AppendIf(r5, AnyHas("Config", warning_categories), RecConfig)
    IN AppendIf(r6, AnyHas("Instance Isolation", warning_categories), RecInstanceIsolation)

\* The function without its last test: an empty list stays empty.
recommendations_without_default(all) == CategoryRecommendations(all)

\* _generate_recommendations(): the positive message when nothing was appended.
_generate_recommendations(all) ==
    IF CategoryRecommendations(all) = <<>> THEN <<RecGood>>
    ELSE CategoryRecommendations(all)

\* The 'summary' dict save_reports writes to summary.json.
Summary(all, reports) ==
    [total_issues |-> Len(all["ERROR"]) + Len(all["WARNING"]) + Len(all["INFO"]),
     errors |-> Len(all["ERROR"]),
     warnings |-> Len(all["WARNING"]),
     info |-> Len(all["INFO"]),
     agents_run |-> reports]

\* summary and recommendations before save_reports has run
NoSummary == [total_issues |-> 0, errors |-> 0, warnings |-> 0, info |-> 0,
              agents_run |-> <<>>]

OrchInit ==
    /\ plan \in { [a \in AgentSet |->
                     CASE a = ArchitectureReview -> p1
                       [] a = CodeDuplication -> p2
                       [] a = AIBiasDetection -> p3
                       [] a = UIConsistency -> p4] :
                  p1 \in [1..Len(Files) -> Outcomes(ArchitectureReview)],
                  p2 \in [1..Len(Files) -> Outcomes(CodeDuplication)],
                  p3 \in [1..Len(Files) -> Outcomes(AIBiasDetection)],
                  p4 \in [1..Len(Files) -> Outcomes(UIConsistency)] }
    /\ issues = [a \in AgentSet |-> <<>>]
    /\ all_issues = [s \in Severities |-> <<>>]
    /\ individual_reports = <<>>
    /\ idx = 1
    /\ runs = 0
    /\ pc = "idle"
    /\ recommendations = <<>>
    /\ summary = NoSummary
    /\ exit_code = "none"

\* run_all_agents is entered (by main, or again on the same orchestrator).
Invoke ==
    /\ pc = "idle"
    /\ runs < MaxRuns
    /\ pc' = "running"
    /\ idx' = 1
    /\ runs' = runs + 1
    /\ UNCHANGED <<plan, issues, all_issues, individual_reports, mainVars, notOrch>>

\* One iteration of the for loop whose agent.run() returns.
RunAgentCompleted ==
    /\ pc = "running"
    /\ idx <= Len(agents)
    /\ LET a == agents[idx]
           r == run(a)
       IN /\ ~r.raised
          /\ issues' = [issues EXCEPT ![a] = r.issues]
          /\ individual_reports' = Append(individual_reports, a)
          /\ all_issues' = Collect(all_issues, a, r.issues)
    /\ idx' = idx + 1
    /\ UNCHANGED <<plan, runs, pc, mainVars, notOrch>>

\* One iteration of the for loop whose agent.run() raises: the except clause
\* prints the failure and the traceback, and changes no state.
RunAgentFailed ==
    /\ pc = "running"
    /\ idx <= Len(agents)
    /\ LET a == agents[idx]
           r == run(a)
       IN /\ r.raised
          /\ issues' = [issues EXCEPT ![a] = r.issues]
    /\ idx' = AfterFailure(idx)
    /\ UNCHANGED <<plan, all_issues, individual_reports, runs, pc, mainVars, notOrch>>

\* The loop is over: run_all_agents prints and returns.
Finish ==
    /\ pc = "running"
    /\ idx > Len(agents)
    /\ pc' = "idle"
    /\ UNCHANGED <<plan, issues, all_issues, individual_reports, idx, runs, mainVars, notOrch>>

\* main calls save_reports after run_all_agents: the consolidated report is
\* generated (with the recommendations in it) and summary.json is written.
SaveReports ==
    /\ pc = "idle"
    /\ runs >= 1
    /\ recommendations' = _generate_recommendations(all_issues)
    /\ summary' = Summary(all_issues, individual_reports)
    /\ pc' = "saved"
    /\ UNCHANGED <<plan, issues, all_issues, individual_reports, idx, runs,
                   exit_code, notOrch>>

\* A write of save_reports raises (write_text on the reports directory):
\* nothing catches it, so main ends with the traceback and the process
\* exits with status 1.  The consolidated report, with the recommendations,
\* may or may not have been written before; summary.json has not.
SaveReportsFails ==
    /\ pc = "idle"
    /\ runs >= 1
    /\ \E consolidated_written \in BOOLEAN :
           recommendations' = IF consolidated_written
                              THEN _generate_recommendations(all_issues)
                              ELSE recommendations
    /\ exit_code' = 1
    /\ pc' = "failed"
    /\ UNCHANGED <<plan, issues, all_issues, individual_reports, idx, runs,
                   summary, notOrch>>

\* main calls print_summary (which prints only) and returns 0, whatever
\* all_issues holds; sys.exit(main()) ends the process with it.
MainReturn ==
    /\ pc = "saved"
    /\ exit_code' = 0
    /\ pc' = "exited"
    /\ UNCHANGED <<plan, issues, all_issues, individual_reports, idx, runs,
                   recommendations, summary, notOrch>>

OrchNext ==
    \/ Invoke \/ RunAgentCompleted \/ RunAgentFailed \/ Finish
    \/ SaveReports \/ SaveReportsFails \/ MainReturn

\* The orchestrator at rest, for the specifications of the other components.
OrchIdle ==
    /\ plan = [a \in AgentSet |-> [f \in 1..Len(Files) |-> "clean"]]
    /\ issues = [a \in AgentSet |-> <<>>]
    /\ all_issues = [s \in Severities |-> <<>>]
    /\ individual_reports = <<>>
    /\ idx = 1
    /\ runs = 0
    /\ pc = "idle"
    /\ recommendations = <<>>
    /\ summary = NoSummary
    /\ exit_code = "none"


(***************************************************************************)
(* DuplicationDetectorAgent.normalize_code and get_code_hash               *)
(* (agent_duplication.py).  A text is a sequence of characters over a      *)
(* small alphabet: an identifier character, the two characters comments    *)
(* are made of (both also C operators), a blank and a line break.          *)
(***************************************************************************)
Chars == {"a", "/", "*", " ", "\n"}

\* \s of the regular expressions, and what str.strip() removes
IsSpace(c) == c \in {" ", "\n"}

At(s, i, c) == i >= 1 /\ i <= Len(s) /\ s[i] = c

\* re.sub(r'//.*$', '', code, flags=re.MULTILINE): from every "//" up to,
\* not including, the end of its line.
RECURSIVE StripLineComments(_, _, _)
StripLineComments(s, i, inComment) ==
    IF i > Len(s) THEN <<>>
    ELSE IF inComment
         THEN IF s[i] = "\n" THEN <<"\n">> \o StripLineComments(s, i + 1, FALSE)
              ELSE StripLineComments(s, i + 1, TRUE)
    ELSE IF At(s, i, "/") /\ At(s, i + 1, "/") THEN StripLineComments(s, i + 2, TRUE)
    ELSE <<s[i]>> \o StripLineComments(s, i + 1, FALSE)

\* The position of the first "*/" at or after j, 0 if there is none.
RECURSIVE FindClose(_, _)
FindClose(s, j) ==
    IF j + 1 > Len(s) THEN 0
    ELSE IF s[j] = "*" /\ s[j + 1] = "/" THEN j
    ELSE FindClose(s, j + 1)

\* re.sub(r'/\*.*?\*/', '', code, flags=re.DOTALL): every "/*" with the
\* nearest "*/" after it, left to right, matches not overlapping.
RECURSIVE StripBlockComments(_, _)
StripBlockComments(s, i) ==
    IF i > Len(s) THEN <<>>
    ELSE IF At(s, i, "/") /\ At(s, i + 1, "*") /\ FindClose(s, i + 2) # 0
         THEN StripBlockComments(s, FindClose(s, i + 2) + 2)
    ELSE <<s[i]>> \o StripBlockComments(s, i + 1)

\* re.sub(r'\s+', ' ', code): every run of whitespace becomes one blank.
RECURSIVE CollapseWhitespace(_, _)
CollapseWhitespace(s, i) ==
    IF i > Len(s) THEN <<>>
    ELSE IF IsSpace(s[i])
         THEN (IF i > 1 /\ IsSpace(s[i - 1]) THEN <<>> ELSE <<" ">>)
              \o CollapseWhitespace(s, i + 1)
    ELSE <<s[i]>> \o CollapseWhitespace(s, i + 1)

\* str.strip()
RECURSIVE LStrip(_)
LStrip(s) == IF s # <<>> /\ IsSpace(Head(s)) THEN LStrip(Tail(s)) ELSE s
RECURSIVE RStrip(_)
RStrip(s) ==
    IF s # <<>> /\ IsSpace(s[Len(s)]) THEN RStrip(SubSeq(s, 1, Len(s) - 1)) ELSE s
strip(s) == RStrip(LStrip(s))

\* normalize_code with code.strip() moved before the substitutions.
normalize_code_strip_first(code) ==
    CollapseWhitespace(
        StripBlockComments(StripLineComments(strip(code), 1, FALSE), 1), 1)

\* normalize_code: line comments, block comments, whitespace runs, strip.
normalize_code(code) ==
    strip(CollapseWhitespace(
        StripBlockComments(StripLineComments(code, 1, FALSE), 1), 1))

\* hashlib.md5(...).hexdigest(): a digest determined by the bytes hashed.
\* MD5 is taken as collision-free on the texts of the model: two different
\* canonical texts get two different digests.
md5(bytes) == [md5 |-> bytes]

\* get_code_hash: the digest of the normalised code.
get_code_hash(code) == md5(normalize_code(code))

\* All texts of at most n characters.
RECURSIVE Texts(_)
Texts(n) ==
    IF n = 0 THEN {<<>>}
    ELSE Texts(n - 1) \cup
         {Append(t, c) : t \in {u \in Texts(n - 1) : Len(u) = n - 1}, c \in Chars}

\* The texts a text is compared with: itself, and itself with one character
\* or one empty block comment inserted anywhere.
InsertAt(t, k, piece) == SubSeq(t, 1, k) \o piece \o SubSeq(t, k + 1, Len(t))
Variants(t) ==
    {t} \cup {InsertAt(t, k, <<c>>) : k \in 0..Len(t), c \in Chars}
        \cup {InsertAt(t, k, <<"/", "*", "*", "/">>) : k \in 0..Len(t)}

NormInit ==
    /\ text \in Texts(MaxLen)
    /\ text2 \in (IF Len(text) <= MaxPairLen THEN Variants(text) ELSE {text})
    /\ canon1 = <<>>
    /\ canon2 = <<>>
    /\ recanon = <<>>
    /\ digest1 = md5(<<>>)
    /\ digest2 = md5(<<>>)
    /\ npc = "input"

\* normalize_code is applied to both texts.
Normalize ==
    /\ npc = "input"
    /\ canon1' = normalize_code(text)
    /\ canon2' = normalize_code(text2)
    /\ npc' = "normalized"
    /\ UNCHANGED <<text, text2, recanon, digest1, digest2, notNorm>>

\* normalize_code is applied to its own result.
Renormalize ==
    /\ npc = "normalized"
    /\ recanon' = normalize_code(canon1)
    /\ npc' = "renormalized"
    /\ UNCHANGED <<text, text2, canon1, canon2, digest1, digest2, notNorm>>

\* get_code_hash is applied to both texts.
Hash ==
    /\ npc = "renormalized"
    /\ digest1' = get_code_hash(text)
    /\ digest2' = get_code_hash(text2)
    /\ npc' = "hashed"
    /\ UNCHANGED <<text, text2, canon1, canon2, recanon, notNorm>>

NormNext == Normalize \/ Renormalize \/ Hash

\* The normaliser at rest, for the specifications of the other components.
NormIdle ==
    /\ text = <<>>
    /\ text2 = <<>>
    /\ canon1 = <<>>
    /\ canon2 = <<>>
    /\ recanon = <<>>
    /\ digest1 = md5(<<>>)
    /\ digest2 = md5(<<>>)
    /\ npc = "input"

(***************************************************************************)
(* DuplicationDetectorAgent.extract_functions (agent_duplication.py).      *)
(* A file is a sequence of source lines taken from a few concrete lines;   *)
(* what the code reads off a line (the match of func_pattern, the counts   *)
(* of braces, the length, the normalised text) is tabulated for them.      *)
(***************************************************************************)
LAddOne == "int addOne(int a){ return a + 1; }"
LSigScale == "static float scaleSample(float sample, float gain, float offset, int clampToUnit) {"
LSigMix == "static float mixSample(float dry, float wet, float amount, int clampToUnit) {"
LClose == "    return clampToUnit ? fminf(1.0f, sample * gain + offset) : sample * gain + offset; }"

\* the addOne line with a comment: the same function modulo comments
LAddOneDoc == "int addOne(int a){ return a + 1; } /* adds one */"

\* the lines of the files given to extract_functions alone
LineKinds == {LAddOne, LSigScale, LSigMix, LClose}

\* re.match(func_pattern, line): group(2), the function name, or "" when the
\* line does not match.
FuncName(line) ==
    CASE line \in {LAddOne, LAddOneDoc} -> "addOne"
      [] line = LSigScale -> "scaleSample"
      [] line = LSigMix -> "mixSample"
      [] OTHER -> ""

\* line.count('{') and line.count('}')
CountOpen(line) == IF line = LClose THEN 0 ELSE 1
CountClose(line) == IF line \in {LAddOne, LAddOneDoc, LClose} THEN 1 ELSE 0

\* len(line)
LineLen(line) ==
    CASE line = LAddOne -> 34
      [] line = LAddOneDoc -> 49
      [] line = LSigScale -> 83
      [] line = LSigMix -> 77
      [] line = LClose -> 88

\* len('\n'.join(func_lines))
RECURSIVE SumLen(_)
SumLen(ls) == IF ls = <<>> THEN 0 ELSE LineLen(Head(ls)) + SumLen(Tail(ls))
CodeLen(ls) == IF ls = <<>> THEN 0 ELSE SumLen(ls) + (Len(ls) - 1)

\* "if len(func_code) > 100": shorter spans are ignored
MinFuncLen == 100

\* functions[current_func] = value on a dict (kept in insertion order): a
\* name already present keeps its place and gets the new value.
DictSet(d, name, value) ==
    IF \E k \in 1..Len(d) : d[k].name = name
    THEN [k \in 1..Len(d) |->
              IF d[k].name = name THEN [name |-> name, value |-> value] ELSE d[k]]
    ELSE Append(d, [name |-> name, value |-> value])

\* The locals before the loop.  current_func = "" stands for None.
ExtStart ==
    [current_func |-> "", current_func_start |-> 0, brace_count |-> 0,
     func_lines |-> <<>>, functions |-> <<>>]

Opens(st, line) == FuncName(line) # "" /\ st.current_func = ""
Closes(st, line) ==
    /\ ~Opens(st, line)
    /\ st.current_func # ""
    /\ st.brace_count + CountOpen(line) - CountClose(line) = 0

\* A variant of the loop body that starts every function with an empty
\* result, as a scan that gave up its results on a new function would.
ScanLineResetOnOpen(st, line, i) ==
    IF Opens(st, line)
    THEN [st EXCEPT !.current_func = FuncName(line),
                    !.current_func_start = i,
                    !.func_lines = <<line>>,
                    !.brace_count = CountOpen(line) - CountClose(line),
                    !.functions = <<>>]
    ELSE IF st.current_func # ""
    THEN LET fl == Append(st.func_lines, line)
             bc == st.brace_count + CountOpen(line) - CountClose(line)
         IN IF bc = 0
            THEN [st EXCEPT !.func_lines = <<>>,
                            !.brace_count = bc,
                            !.current_func = "",
                            !.functions =
                                IF CodeLen(fl) > MinFuncLen
                                THEN DictSet(@, st.current_func,
                                             [code |-> fl, line |-> st.current_func_start])
                                ELSE @]
            ELSE [st EXCEPT !.func_lines = fl, !.brace_count = bc]
    ELSE st

\* The body of the for loop, for line number i.
ScanLine(st, line, i) ==
    IF Opens(st, line)
    THEN [st EXCEPT !.current_func = FuncName(line),
                    !.current_func_start = i,
                    !.func_lines = <<line>>,
                    !.brace_count = CountOpen(line) - CountClose(line)]
    ELSE IF st.current_func # ""
    THEN LET fl == Append(st.func_lines, line)
             bc == st.brace_count + CountOpen(line) - CountClose(line)
         IN IF bc = 0
            THEN [st EXCEPT !.func_lines = <<>>,
                            !.brace_count = bc,
                            !.current_func = "",
                            !.functions =
                                IF CodeLen(fl) > MinFuncLen
                                THEN DictSet(@, st.current_func,
                                             [code |-> fl, line |-> st.current_func_start])
                                ELSE @]
            ELSE [st EXCEPT !.func_lines = fl, !.brace_count = bc]
    ELSE st

\* extract_functions(file_path): the loop over all lines; returns functions.
RECURSIVE ScanFrom(_, _, _)
ScanFrom(st, ls, i) ==
    IF i > Len(ls) THEN st ELSE ScanFrom(ScanLine(st, ls[i], i), ls, i + 1)
extract_functions(ls) == ScanFrom(ExtStart, ls, 1).functions

\* All sequences of 1..n lines over a set of lines.
RECURSIVE LineSeqs(_, _)
LineSeqs(kinds, n) ==
    IF n = 0 THEN {<<>>}
    ELSE LineSeqs(kinds, n - 1) \cup
         {Append(t, l) : t \in {u \in LineSeqs(kinds, n - 1) : Len(u) = n - 1}, l \in kinds}
FileTexts(kinds, n) == LineSeqs(kinds, n) \ {<<>>}

ExtInit ==
    /\ lines \in FileTexts(LineKinds, MaxLines)
    /\ lineNo = 1
    /\ ext = ExtStart
    /\ epc = "scanning"

\* A line that matches func_pattern is read while no function is open.
OpenSpan ==
    /\ epc = "scanning" /\ lineNo <= Len(lines)
    /\ Opens(ext, lines[lineNo])
    /\ ext' = ScanLine(ext, lines[lineNo], lineNo)
    /\ lineNo' = lineNo + 1
    /\ UNCHANGED <<lines, epc, notExt>>

\* A line is read inside a function and leaves the brace count off zero.
ContinueSpan ==
    /\ epc = "scanning" /\ lineNo <= Len(lines)
    /\ ~Opens(ext, lines[lineNo]) /\ ext.current_func # ""
    /\ ~Closes(ext, lines[lineNo])
    /\ ext' = ScanLine(ext, lines[lineNo], lineNo)
    /\ lineNo' = lineNo + 1
    /\ UNCHANGED <<lines, epc, notExt>>

\* A line is read inside a function and brings the brace count to zero.
CloseSpan ==
    /\ epc = "scanning" /\ lineNo <= Len(lines)
    /\ Closes(ext, lines[lineNo])
    /\ ext' = ScanLine(ext, lines[lineNo], lineNo)
    /\ lineNo' = lineNo + 1
    /\ UNCHANGED <<lines, epc, notExt>>

\* A line outside any function that opens none.
SkipLine ==
    /\ epc = "scanning" /\ lineNo <= Len(lines)
    /\ ~Opens(ext, lines[lineNo]) /\ ext.current_func = ""
    /\ ext' = ScanLine(ext, lines[lineNo], lineNo)
    /\ lineNo' = lineNo + 1
    /\ UNCHANGED <<lines, epc, notExt>>

\* The loop is over: return functions.
ReturnFunctions ==
    /\ epc = "scanning" /\ lineNo > Len(lines)
    /\ epc' = "returned"
    /\ UNCHANGED <<lines, lineNo, ext, notExt>>

ExtNext == OpenSpan \/ ContinueSpan \/ CloseSpan \/ SkipLine \/ ReturnFunctions

\* The extractor at rest, for the specifications of the other components.
ExtIdle ==
    /\ lines = <<>>
    /\ lineNo = 1
    /\ ext = ExtStart
    /\ epc = "scanning"

(***************************************************************************)
(* DuplicationDetectorAgent.find_duplicate_functions (agent_duplication.py)*)
(***************************************************************************)
\* normalize_code of one line: the comment and the indentation go.
LineCanon(line) ==
    CASE line = LAddOneDoc -> LAddOne
      [] line = LClose -> "return clampToUnit ? fminf(1.0f, sample * gain + offset) : sample * gain + offset; }"
      [] OTHER -> line

\* normalize_code of '\n'.join(func_lines), for lines whose comments end on
\* the line they start on: the normalised lines joined by single blanks, held
\* as the sequence of the lines that are not empty.
RECURSIVE normalize_lines(_)
normalize_lines(ls) ==
    IF ls = <<>> THEN <<>>
    ELSE (IF LineCanon(Head(ls)) = "" THEN <<>> ELSE <<LineCanon(Head(ls))>>)
         \o normalize_lines(Tail(ls))

\* get_code_hash(code) of a span
span_hash(ls) == md5(normalize_lines(ls))

\* str(cpp_file.relative_to(self.project_root)) of the files of the corpus
VstPath == <<"v", "s", "t", "/", "s", "o", "u", "r", "c", "e", "/", "P", "l", "u", "g", "i", "n", "P", "r", "o", "c", "e", "s", "s", "o", "r", ".", "c", "p", "p">>
SrcCorePath == <<"s", "r", "c", "/", "c", "o", "r", "e", "/", "d", "s", "p", ".", "c">>
SrcVstPath == <<"s", "r", "c", "/", "v", "s", "t", "/", "a", "d", "a", "p", "t", "e", "r", ".", "c">>

\* The roots: self.vst_dir (the plugin tree) and self.src_dir (the
\* standalone tree).
PluginTree == "pluginTree"
StandaloneTree == "standaloneTree"

\* sub in s, for strings held as sequences of characters
Contains(sub, s) ==
    \E k \in 0..(Len(s) - Len(sub)) : SubSeq(s, k + 1, k + Len(sub)) = sub

\* The lines of the files of each tree.
VstLineKinds == {LAddOneDoc, LSigScale, LClose}
SrcLineKinds == {LAddOne, LSigScale, LClose}

\* hash_map[code_hash].append(loc) on a defaultdict(list)
HashMapAppend(hm, digest, loc) ==
    IF \E k \in 1..Len(hm) : hm[k].digest = digest
    THEN [k \in 1..Len(hm) |->
              IF hm[k].digest = digest
              THEN [hm[k] EXCEPT !.locations = Append(@, loc)]
              ELSE hm[k]]
    ELSE Append(hm, [digest |-> digest, locations |-> <<loc>>])

\* for func_name, (code, line_num) in functions.items(): ...append(...)
RECURSIVE AddFunctions(_, _, _)
AddFunctions(hm, path, fns) ==
    IF fns = <<>> THEN hm
    ELSE AddFunctions(
             HashMapAppend(hm, span_hash(Head(fns).value.code),
                           [file |-> path, name |-> Head(fns).name,
                            line |-> Head(fns).value.line]),
             path, Tail(fns))

\* vst_locs and src_locs are both not empty: some member's path holds
\* 'vst/' and some member's path holds 'src/'.
CrossBoundary(locations) ==
    /\ \E k \in 1..Len(locations) : Contains(<<"v", "s", "t", "/">>, locations[k].file)
    /\ \E k \in 1..Len(locations) : Contains(<<"s", "r", "c", "/">>, locations[k].file)

\* The issue add_issue builds for a group.
GroupIssue(locations) ==
    [severity |-> "WARNING",
     category |-> "Code Duplication - Cross-boundary",
     locations |-> [k \in 1..Len(locations) |->
                       [file |-> locations[k].file, line |-> locations[k].line]],
     function |-> locations[1].name]

\* for code_hash, locations in hash_map.items(): ...
RECURSIVE ClassifyGroups(_, _)
ClassifyGroups(hm, acc) ==
    IF hm = <<>> THEN acc
    ELSE ClassifyGroups(
             Tail(hm),
             IF Len(Head(hm).locations) > 1 /\ CrossBoundary(Head(hm).locations)
             THEN add_issue(acc, GroupIssue(Head(hm).locations))
             ELSE acc)

DupInit ==
    /\ corpus \in
         { << [path |-> VstPath, root |-> PluginTree, lines |-> c1],
              [path |-> SrcCorePath, root |-> StandaloneTree, lines |-> c2],
              [path |-> SrcVstPath, root |-> StandaloneTree, lines |-> c3] >> :
           c1 \in FileTexts(VstLineKinds, MaxFileLines),
           c2 \in FileTexts(SrcLineKinds, MaxFileLines),
           c3 \in FileTexts(SrcLineKinds, MaxFileLines) }
    /\ fileIdx = 1
    /\ hash_map = <<>>
    /\ dup_issues = <<>>
    /\ dpc = "scan"

\* One iteration of the file loops: extract the functions of the file and
\* file them under their digests.
ScanFile ==
    /\ dpc = "scan" /\ fileIdx <= Len(corpus)
    /\ hash_map' = AddFunctions(hash_map, corpus[fileIdx].path,
                                extract_functions(corpus[fileIdx].lines))
    /\ fileIdx' = fileIdx + 1
    /\ UNCHANGED <<corpus, dup_issues, dpc, notDup>>

\* The loop over hash_map that reports the duplicates.
Classify ==
    /\ dpc = "scan" /\ fileIdx > Len(corpus)
    /\ dup_issues' = ClassifyGroups(hash_map, dup_issues)
    /\ dpc' = "classified"
    /\ UNCHANGED <<corpus, fileIdx, hash_map, notDup>>

DupNext == ScanFile \/ Classify

\* The duplicate finder at rest, for the specifications of the other
\* components.
DupIdle ==
    /\ corpus = <<>>
    /\ fileIdx = 1
    /\ hash_map = <<>>
    /\ dup_issues = <<>>
    /\ dpc = "scan"

(***************************************************************************)
(* _generate_recommendations over the issues the scanners of the           *)
(* repository emit (run_code_review.py:155-214).  The orchestrator files   *)
(* the issues of any agent object that has an 'issues' list (lines 58-64), *)
(* by the severity the agent gave them.                                    *)
(***************************************************************************)
\* most issues in one severity bucket
MaxIssues == 2

\* Issues by the add_issue calls of the agents, with the agent that emits
\* each: ArchitectureReviewAgent (agent_architecture.py:53, 165, 184, 213),
\* DuplicationDetectorAgent (agent_duplication.py:127), AIBiasDetectorAgent
\* (agent_ai_bias.py:104), UIConsistencyAgent (agent_ui_consistency.py:135,
\* 281), and LLMSemanticAgent (agent_llm_semantic.py:134-140), whose
\* realtime-safety issues carry the severity the analysis gave them, ERROR
\* or WARNING.
LLMSemantic == "LLM Semantic Analysis"
ScannerIssues ==
    { [agent |-> ArchitectureReview,
       issue |-> [severity |-> "ERROR", category |-> "RT-Audio Safety"]],
      [agent |-> ArchitectureReview,
       issue |-> [severity |-> "WARNING", category |-> "Architecture - Global State"]],
      [agent |-> ArchitectureReview,
       issue |-> [severity |-> "WARNING", category |-> "Architecture - Instance Isolation"]],
      [agent |-> ArchitectureReview,
       issue |-> [severity |-> "WARNING", category |-> "Architecture - Configuration"]],
      [agent |-> CodeDuplication,
       issue |-> [severity |-> "WARNING", category |-> "Code Duplication - Cross-boundary"]],
      [agent |-> AIBiasDetection,
       issue |-> [severity |-> "WARNING", category |-> "AI Bias - Placeholder Code"]],
      [agent |-> UIConsistency,
       issue |-> [severity |-> "ERROR", category |-> "UI - Thread Safety"]],
      [agent |-> UIConsistency,
       issue |-> [severity |-> "WARNING", category |-> "UI - Layout Hardcoding"]],
      [agent |-> LLMSemantic,
       issue |-> [severity |-> "ERROR", category |-> "LLM - RT-Audio Safety"]],
      [agent |-> LLMSemantic,
       issue |-> [severity |-> "WARNING", category |-> "LLM - RT-Audio Safety"]],
      [agent |-> CodeDuplication,
       issue |-> [severity |-> "INFO", category |-> "Unused Code - Stubs"]] }

\* The lists a severity bucket can hold.
RECURSIVE IssueLists(_, _)
IssueLists(items, n) ==
    IF n = 0 THEN {<<>>}
    ELSE IssueLists(items, n - 1) \cup
         {Append(t, i) : t \in {u \in IssueLists(items, n - 1) : Len(u) = n - 1},
                         i \in items}
Bucket(sev) == IssueLists({i \in ScannerIssues : i.issue.severity = sev}, MaxIssues)

RecInit ==
    /\ given_issues \in
         { [s \in Severities |->
               CASE s = "ERROR" -> e [] s = "WARNING" -> w [] s = "INFO" -> i] :
           e \in Bucket("ERROR"), w \in Bucket("WARNING"), i \in Bucket("INFO") }
    /\ given_recs = <<>>
    /\ gpc = "called"

\* generate_consolidated_report calls the function (line 126).
GenerateRecommendations ==
    /\ gpc = "called"
    /\ given_recs' = _generate_recommendations(given_issues)
    /\ gpc' = "returned"
    /\ UNCHANGED <<given_issues, notRec>>

RecNext == GenerateRecommendations

\* The function not called, for the specifications of the other components.
RecIdle ==
    /\ given_issues = [s \in Severities |-> <<>>]
    /\ given_recs = <<>>
    /\ gpc = "called"

(***************************************************************************)
(* CodeMetricsAgent (agent_metrics.py): calculate_file_metrics,            *)
(* run_lizard_analysis, parse_lizard_output and the score of               *)
(* generate_report.  Ratios are held as exact fractions.                   *)
(***************************************************************************)
\* most lines of a file whose metrics are computed
MaxMetricLines == 2
\* most functions with high complexity in the output of lizard
MaxFuncs == 6

\* The lines of the files: a blank line, a comment line, a code line.
LBlank == ""
LComment == "// scale the sample by the gain"
LCode == "sample = sample * gain;"
MetricLineKinds == {LBlank, LComment, LCode}

\* not line.strip()
IsBlank(line) == line = LBlank
\* line.strip().startswith('//') or ...startswith('/*') or ...startswith('*')
IsCommentLine(line) == line = LComment

\* comment_lines / total_lines if total_lines > 0 else 0
Ratio(comment_lines, total_lines) ==
    IF total_lines > 0 THEN [num |-> comment_lines, den |-> total_lines]
    ELSE [num |-> 0, den |-> 1]

\* The entry of file_metrics for one file.
FileMetrics(ls) ==
    LET blank_lines == Cardinality({k \in 1..Len(ls) : IsBlank(ls[k])})
        comment_lines == Cardinality({k \in 1..Len(ls) : IsCommentLine(ls[k])})
    IN [total_lines |-> Len(ls),
        blank_lines |-> blank_lines,
        comment_lines |-> comment_lines,
        code_lines |-> Len(ls) - blank_lines - comment_lines,
        comment_ratio |-> Ratio(comment_lines, Len(ls))]

\* sum(f['comment_ratio'] for f in file_metrics)
RECURSIVE SumRatios(_)
SumRatios(fm) ==
    IF fm = <<>> THEN [num |-> 0, den |-> 1]
    ELSE LET r == Head(fm).comment_ratio
             t == SumRatios(Tail(fm))
         IN [num |-> r.num * t.den + t.num * r.den, den |-> r.den * t.den]

\* sum(...) / len(file_metrics) if file_metrics else 0
AvgRatio(fm) ==
    IF fm = <<>> THEN [num |-> 0, den |-> 1]
    ELSE [num |-> SumRatios(fm).num, den |-> SumRatios(fm).den * Len(fm)]

\* The functions of lizard's function_list.
ComplexFunc == [name |-> "processBlock", cyclomatic_complexity |-> 16, nloc |-> 40,
                parameter_count |-> 2, start_line |-> 10]
LongFunc == [name |-> "prepareToPlay", cyclomatic_complexity |-> 3, nloc |-> 101,
             parameter_count |-> 7, start_line |-> 80]

RECURSIVE Repeat(_, _)
Repeat(x, n) == IF n = 0 THEN <<>> ELSE Append(Repeat(x, n - 1), x)

\* The outputs of a run of lizard that returns 0: 'average_CCN' and
\* 'function_list'.
LizardOutputs ==
    { [average_CCN |-> c, function_list |-> Repeat(ComplexFunc, k) \o tail] :
        c \in {0, 10, 11}, k \in 0..MaxFuncs, tail \in {<<>>, <<LongFunc>>} }

\* What the tool does: not installed; installed and the run times out,
\* returns non-zero, or returns 0 with an output.
LizardRuns ==
    { [available |-> FALSE, outcome |-> "absent", output |-> <<>>],
      [available |-> TRUE, outcome |-> "timeout", output |-> <<>>],
      [available |-> TRUE, outcome |-> "nonzero", output |-> <<>>] }
    \cup { [available |-> TRUE, outcome |-> "ok", output |-> <<o>>] : o \in LizardOutputs }


\* parse_lizard_output: the thresholds on each function
IsComplex(f) == f.cyclomatic_complexity > 15
IsLong(f) == f.nloc > 100
HasManyParams(f) == f.parameter_count > 6

MetricIssue(cat, sev, f) ==
    [severity |-> sev, category |-> cat, file |-> FileX, line |-> f.start_line]

\* the three loops that add the issues
RECURSIVE IssuesFor(_, _, _)
IssuesFor(fs, cat, sev) ==
    IF fs = <<>> THEN <<>>
    ELSE <<MetricIssue(cat, sev, Head(fs))>> \o IssuesFor(Tail(fs), cat, sev)

\* self.metrics.get(key, default) for the keys the score reads
MetricsGet(mt, key, default) == IF key \in DOMAIN mt THEN mt[key] ELSE default

Below(r, n, d) == r.num * d < n * r.den
Above(r, n, d) == r.num * d > n * r.den

\* The deductions of generate_report: every function with high complexity
\* costs its own 15 points.
quality_score_per_function(mt) ==
    100 - (IF MetricsGet(mt, "avg_ccn", 0) > 10 THEN 20 ELSE 0)
        - 15 * Len(MetricsGet(mt, "complex_functions", <<>>))
        - (IF Below(MetricsGet(mt, "avg_comment_ratio", Ratio(0, 0)), 1, 10) THEN 10 ELSE 0)

\* The score without the test on a high comment ratio.
quality_score_low_ratio_only(mt) ==
    100 - (IF MetricsGet(mt, "avg_ccn", 0) > 10 THEN 20 ELSE 0)
        - (IF Len(MetricsGet(mt, "complex_functions", <<>>)) > 5 THEN 15 ELSE 0)
        - (IF Below(MetricsGet(mt, "avg_comment_ratio", Ratio(0, 0)), 1, 10) THEN 10 ELSE 0)

\* The lines generate_report appends under QUALITY ASSESSMENT before the
\* score, one for each deduction it applies, in the order of the tests.
assessment_lines(mt) ==
    LET ratio == MetricsGet(mt, "avg_comment_ratio", Ratio(0, 0))
    IN (IF MetricsGet(mt, "avg_ccn", 0) > 10
        THEN <<"Average complexity above recommended threshold">> ELSE <<>>)
       \o (IF Len(MetricsGet(mt, "complex_functions", <<>>)) > 5
           THEN <<"functions with high complexity">> ELSE <<>>)
       \o (IF Below(ratio, 1, 10) THEN <<"Low comment ratio (< 10%)">>
           ELSE IF Above(ratio, 1, 2)
           THEN <<"High comment ratio (> 50%), may indicate over-documentation">>
           ELSE <<>>)

\* The score of generate_report: 100, less 20 when the average complexity
\* is over 10, less 15 when more than 5 functions are complex, less 10 when
\* the comment ratio is under 0.1 or else less 5 when it is over 0.5.
quality_score(mt) ==
    LET ratio == MetricsGet(mt, "avg_comment_ratio", Ratio(0, 0))
    IN 100 - (IF MetricsGet(mt, "avg_ccn", 0) > 10 THEN 20 ELSE 0)
           - (IF Len(MetricsGet(mt, "complex_functions", <<>>)) > 5 THEN 15 ELSE 0)
           - (IF Below(ratio, 1, 10) THEN 10
              ELSE IF Above(ratio, 1, 2) THEN 5 ELSE 0)

RECURSIVE MetricLineSeqs(_)
MetricLineSeqs(n) ==
    IF n = 0 THEN {<<>>}
    ELSE MetricLineSeqs(n - 1) \cup
         {Append(t, l) : t \in {u \in MetricLineSeqs(n - 1) : Len(u) = n - 1},
                         l \in MetricLineKinds}

MetInit ==
    /\ met_files \in {<<>>} \cup {<<f>> : f \in MetricLineSeqs(MaxMetricLines)}
                     \cup {<<f, g>> : f, g \in MetricLineSeqs(MaxMetricLines)}
    /\ lizard \in LizardRuns
    /\ metrics = <<>>
    /\ met_issues = <<>>
    /\ score = 100
    /\ mpc = "start"

\* calculate_file_metrics
CalculateFileMetrics ==
    /\ mpc = "start"
    /\ LET fm == [k \in 1..Len(met_files) |-> FileMetrics(met_files[k])]
       IN metrics' = [file_metrics |-> fm, avg_comment_ratio |-> AvgRatio(fm)]
    /\ mpc' = "files"
    /\ UNCHANGED <<met_files, lizard, met_issues, score, notMet>>

\* run_lizard_analysis when lizard is not installed: it prints and returns.
SkipLizard ==
    /\ mpc = "files"
    /\ ~lizard.available
    /\ mpc' = "lizard"
    /\ UNCHANGED <<met_files, lizard, metrics, met_issues, score, notMet>>

\* run_lizard_analysis when the run times out or returns non-zero: it
\* prints and returns.
LizardFails ==
    /\ mpc = "files"
    /\ lizard.available /\ lizard.outcome \in {"timeout", "nonzero"}
    /\ mpc' = "lizard"
    /\ UNCHANGED <<met_files, lizard, metrics, met_issues, score, notMet>>

\* run_lizard_analysis when the run returns 0: parse_lizard_output.
ParseLizardOutput ==
    /\ mpc = "files"
    /\ lizard.available /\ lizard.outcome = "ok"
    /\ LET data == lizard.output[1]
           complex_functions == SelectSeq(data.function_list, IsComplex)
           long_functions == SelectSeq(data.function_list, IsLong)
           high_param_functions == SelectSeq(data.function_list, HasManyParams)
       IN /\ metrics' = [file_metrics |-> metrics.file_metrics,
                         avg_comment_ratio |-> metrics.avg_comment_ratio,
                         avg_ccn |-> data.average_CCN,
                         complex_functions |-> complex_functions,
                         long_functions |-> long_functions,
                         high_param_functions |-> high_param_functions]
          /\ met_issues' = met_issues
                 \o IssuesFor(complex_functions, "Metrics - Complexity", "WARNING")
                 \o IssuesFor(long_functions, "Metrics - Size", "INFO")
                 \o IssuesFor(high_param_functions, "Metrics - Parameters", "INFO")
    /\ mpc' = "lizard"
    /\ UNCHANGED <<met_files, lizard, score, notMet>>

\* generate_report: the score
GenerateReport ==
    /\ mpc = "lizard"
    /\ score' = quality_score(metrics)
    /\ mpc' = "reported"
    /\ UNCHANGED <<met_files, lizard, metrics, met_issues, notMet>>

MetNext ==
    \/ CalculateFileMetrics \/ SkipLizard \/ LizardFails \/ ParseLizardOutput
    \/ GenerateReport

\* The metrics agent at rest, for the specifications of the other components.
MetIdle ==
    /\ met_files = <<>>
    /\ lizard = [available |-> FALSE, outcome |-> "absent", output |-> <<>>]
    /\ metrics = <<>>
    /\ met_issues = <<>>
    /\ score = 100
    /\ mpc = "start"

(***************************************************************************)
(* ArchitectureReviewAgent.check_rt_audio_safety (agent_architecture.py).  *)
(* The file is a sequence of lines taken from a few concrete lines; the    *)
(* matches of the regular expressions on them are tabulated.               *)
(***************************************************************************)
\* most lines of the file checked
MaxRtLines == 4

LInclude == "#include \"PluginProcessor.h\""
LProcSig == "void Sp3ctraAudioProcessor::processBlock(juce::AudioBuffer<float>& buffer, juce::MidiBuffer& midi) {"
LLock == "    std::lock_guard<std::mutex> lock(stateMutex);"
LLockComment == "    // std::lock_guard<std::mutex> lock(stateMutex);"
LClear == "    buffer.clear();"
LEnd == "}"
RtLineKinds == {LInclude, LProcSig, LLock, LLockComment, LClear, LEnd}

\* The line holds "void Sp3ctraAudioProcessor::processBlock(...) {": the
\* start of a match of the regular expression of re.search.
IsProcSig(line) == line = LProcSig
\* What follows the '{' on that line: the first line of group(1).
AfterBrace(line) == ""
\* The line starts with '}', so that "\n}" ends the match before it.
StartsWithCloseBrace(line) == line = LEnd

\* The descriptions of the unsafe_patterns that re.search finds in the line,
\* in the order of the list.
UnsafeIn(line) ==
    IF line \in {LLock, LLockComment} THEN <<"Mutex lock (RT-unsafe if blocking)">>
    ELSE <<>>
\* line.strip().startswith('//')
IsLineComment(line) == line = LLockComment

\* The least line number of a set of line numbers, or 0.
FirstOf(found) ==
    IF found = {} THEN 0 ELSE CHOOSE j \in found : \A i \in found : j <= i

\* re.search(r'void\s+Sp3ctraAudioProcessor::processBlock\s*\([^)]+\)\s*{(.*?)\n}',
\* content, re.DOTALL): the leftmost signature for which a line starting
\* with '}' follows, and the non-greedy group up to the first such line.
\* [start, end] are the lines of the signature and of that '}', or <<>>.
ProcessBlockMatch(ls) ==
    LET s == FirstOf({j \in 1..Len(ls) : IsProcSig(ls[j])})
        e == IF s = 0 THEN 0
             ELSE FirstOf({j \in (s + 1)..Len(ls) : StartsWithCloseBrace(ls[j])})
    IN IF s = 0 \/ e = 0 THEN <<>> ELSE <<s, e>>

\* processblock_match.group(1).split('\n')
BodyLines(ls, mt) == <<AfterBrace(ls[mt[1]])>> \o SubSeq(ls, mt[1] + 1, mt[2] - 1)

\* The issues the inner loop adds for line number i of the body.
RECURSIVE RtIssuesFor(_, _, _)
RtIssuesFor(descs, line, i) ==
    IF descs = <<>> \/ IsLineComment(line) THEN <<>>
    ELSE << [severity |-> "ERROR", category |-> "RT-Audio Safety",
             file |-> FileX, line |-> i, message |-> Head(descs)] >>
         \o RtIssuesFor(Tail(descs), line, i)

RECURSIVE RtLineSeqs(_)
RtLineSeqs(n) ==
    IF n = 0 THEN {<<>>}
    ELSE RtLineSeqs(n - 1) \cup
         {Append(t, l) : t \in {u \in RtLineSeqs(n - 1) : Len(u) = n - 1},
                         l \in RtLineKinds}

RtInit ==
    /\ rt_lines \in RtLineSeqs(MaxRtLines) \ {<<>>}
    /\ rt_body = <<>>
    /\ rt_i = 1
    /\ rt_issues = <<>>
    /\ rtpc = "search"

\* The file is read and processBlock is found in it.
FindProcessBlock ==
    /\ rtpc = "search"
    /\ ProcessBlockMatch(rt_lines) # <<>>
    /\ rt_body' = BodyLines(rt_lines, ProcessBlockMatch(rt_lines))
    /\ rt_i' = 1
    /\ rtpc' = "scan"
    /\ UNCHANGED <<rt_lines, rt_issues, notRt>>

\* The file is read and holds no match: nothing is checked.
NoProcessBlock ==
    /\ rtpc = "search"
    /\ ProcessBlockMatch(rt_lines) = <<>>
    /\ rtpc' = "done"
    /\ UNCHANGED <<rt_lines, rt_body, rt_i, rt_issues, notRt>>

\* One line of the body in which an unsafe pattern is found outside a comment.
FlagBodyLine ==
    /\ rtpc = "scan" /\ rt_i <= Len(rt_body)
    /\ RtIssuesFor(UnsafeIn(rt_body[rt_i]), rt_body[rt_i], rt_i) # <<>>
    /\ rt_issues' = rt_issues \o RtIssuesFor(UnsafeIn(rt_body[rt_i]), rt_body[rt_i], rt_i)
    /\ rt_i' = rt_i + 1
    /\ UNCHANGED <<rt_lines, rt_body, rtpc, notRt>>

\* One line of the body for which no issue is added.
PassBodyLine ==
    /\ rtpc = "scan" /\ rt_i <= Len(rt_body)
    /\ RtIssuesFor(UnsafeIn(rt_body[rt_i]), rt_body[rt_i], rt_i) = <<>>
    /\ rt_i' = rt_i + 1
    /\ UNCHANGED <<rt_lines, rt_body, rt_issues, rtpc, notRt>>

\* The loop over the body is over.
RtReturn ==
    /\ rtpc = "scan" /\ rt_i > Len(rt_body)
    /\ rtpc' = "done"
    /\ UNCHANGED <<rt_lines, rt_body, rt_i, rt_issues, notRt>>

RtNext == FindProcessBlock \/ NoProcessBlock \/ FlagBodyLine \/ PassBodyLine \/ RtReturn

\* The check not run, for the specifications of the other components.
RtIdle ==
    /\ rt_lines = <<>>
    /\ rt_body = <<>>
    /\ rt_i = 1
    /\ rt_issues = <<>>
    /\ rtpc = "search"

(***************************************************************************)
(* StaticAnalysisAgent (agent_static_analysis.py): run_clang_tidy,         *)
(* run_cppcheck and run.  A run of an external tool is an input: it times  *)
(* out, raises, or returns an output with or without a finding.            *)
(***************************************************************************)
ClangTidy == "clang-tidy"
Cppcheck == "cppcheck"

\* subprocess.run of clang-tidy on one file, and of cppcheck on the directory
ClangTidyOutcomes == {"clean", "warning", "timeout", "error"}
CppcheckOutcomes == {"clean", "finding", "timeout"}

\* parse_clang_tidy_output on "<file>:14:5: warning: ... [bugprone-use-after-move]"
ClangTidyIssue(f) ==
    [severity |-> "WARNING", category |-> "Static Analysis - Bugs",
     file |-> Files[f], line |-> 14, checker |-> ClangTidy]

\* parse_cppcheck_output on "<file>:27:error:nullPointer:..."
CppcheckIssue ==
    [severity |-> "ERROR", category |-> "Static Analysis - Null Pointer",
     file |-> FileX, line |-> 27, checker |-> Cppcheck]

\* print(...) of a note about a tool
Note(tool, kind) == [tool |-> tool, kind |-> kind]

SaInit ==
    /\ sa_tools \in
         { [clang_tidy_available |-> ca, clang_tidy |-> ct,
            cppcheck_available |-> pa, cppcheck |-> pc0] :
           ca \in BOOLEAN, ct \in [1..Len(Files) -> ClangTidyOutcomes],
           pa \in BOOLEAN, pc0 \in CppcheckOutcomes }
    /\ sa_file = 1
    /\ sa_issues = <<>>
    /\ sa_notes = <<>>
    /\ sapc = "clang-tidy"

\* run_clang_tidy when clang-tidy is not installed
SkipClangTidy ==
    /\ sapc = "clang-tidy"
    /\ ~sa_tools.clang_tidy_available
    /\ sa_notes' = Append(sa_notes, Note(ClangTidy, "skipped"))
    /\ sapc' = "cppcheck"
    /\ UNCHANGED <<sa_tools, sa_file, sa_issues, notSa>>

\* One file of the loop: clang-tidy returns and its output is parsed.
ClangTidyFile ==
    /\ sapc = "clang-tidy"
    /\ sa_tools.clang_tidy_available
    /\ sa_file <= Len(Files)
    /\ sa_tools.clang_tidy[sa_file] \in {"clean", "warning"}
    /\ sa_issues' = IF sa_tools.clang_tidy[sa_file] = "warning"
                    THEN Append(sa_issues, ClangTidyIssue(sa_file))
                    ELSE sa_issues
    /\ sa_file' = sa_file + 1
    /\ UNCHANGED <<sa_tools, sa_notes, sapc, notSa>>

\* One file of the loop: subprocess.TimeoutExpired is caught and printed.
ClangTidyTimeout ==
    /\ sapc = "clang-tidy"
    /\ sa_tools.clang_tidy_available
    /\ sa_file <= Len(Files)
    /\ sa_tools.clang_tidy[sa_file] = "timeout"
    /\ sa_notes' = Append(sa_notes, Note(ClangTidy, "timeout"))
    /\ sa_file' = sa_file + 1
    /\ UNCHANGED <<sa_tools, sa_issues, sapc, notSa>>

\* One file of the loop: another exception is caught and printed.
ClangTidyError ==
    /\ sapc = "clang-tidy"
    /\ sa_tools.clang_tidy_available
    /\ sa_file <= Len(Files)
    /\ sa_tools.clang_tidy[sa_file] = "error"
    /\ sa_notes' = Append(sa_notes, Note(ClangTidy, "error"))
    /\ sa_file' = sa_file + 1
    /\ UNCHANGED <<sa_tools, sa_issues, sapc, notSa>>

\* The loop over the files is over: run_clang_tidy returns.
ClangTidyReturn ==
    /\ sapc = "clang-tidy"
    /\ sa_tools.clang_tidy_available
    /\ sa_file > Len(Files)
    /\ sapc' = "cppcheck"
    /\ UNCHANGED <<sa_tools, sa_file, sa_issues, sa_notes, notSa>>

\* run_cppcheck when cppcheck is not installed
SkipCppcheck ==
    /\ sapc = "cppcheck"
    /\ ~sa_tools.cppcheck_available
    /\ sa_notes' = Append(sa_notes, Note(Cppcheck, "skipped"))
    /\ sapc' = "report"
    /\ UNCHANGED <<sa_tools, sa_file, sa_issues, notSa>>

\* run_cppcheck: cppcheck returns and its output is parsed.
CppcheckRun ==
    /\ sapc = "cppcheck"
    /\ sa_tools.cppcheck_available
    /\ sa_tools.cppcheck \in {"clean", "finding"}
    /\ sa_issues' = IF sa_tools.cppcheck = "finding"
                    THEN Append(sa_issues, CppcheckIssue)
                    ELSE sa_issues
    /\ sapc' = "report"
    /\ UNCHANGED <<sa_tools, sa_file, sa_notes, notSa>>

\* run_cppcheck: subprocess.TimeoutExpired is caught and printed.
CppcheckTimeout ==
    /\ sapc = "cppcheck"
    /\ sa_tools.cppcheck_available
    /\ sa_tools.cppcheck = "timeout"
    /\ sa_notes' = Append(sa_notes, Note(Cppcheck, "timeout"))
    /\ sapc' = "report"
    /\ UNCHANGED <<sa_tools, sa_file, sa_issues, notSa>>

\* run() returns the report of generate_report.
SaReturn ==
    /\ sapc = "report"
    /\ sapc' = "returned"
    /\ UNCHANGED <<sa_tools, sa_file, sa_issues, sa_notes, notSa>>

SaNext ==
    \/ SkipClangTidy \/ ClangTidyFile \/ ClangTidyTimeout \/ ClangTidyError
    \/ ClangTidyReturn \/ SkipCppcheck \/ CppcheckRun \/ CppcheckTimeout
    \/ SaReturn

\* The agent not run, for the specifications of the other components.
SaIdle ==
    /\ sa_tools = [clang_tidy_available |-> FALSE,
                   clang_tidy |-> [f \in 1..Len(Files) |-> "clean"],
                   cppcheck_available |-> FALSE, cppcheck |-> "clean"]
    /\ sa_file = 1
    /\ sa_issues = <<>>
    /\ sa_notes = <<>>
    /\ sapc = "clang-tidy"

(***************************************************************************)
(* AIBiasDetectorAgent.check_dead_code (agent_ai_bias.py), on one file.    *)
(***************************************************************************)
\* most lines of the file read
MaxDeadLines == 5

\* a comment line with code in it, a comment line of prose, a code line
LDeadCode == "// sample = compute(gain);"
LProse == "// scale the sample by the gain"
LLive == "sample = compute(gain);"
DeadLineKinds == {LDeadCode, LProse, LLive}

\* stripped.startswith('//')
StartsWithSlashes(line) == line \in {LDeadCode, LProse}
\* any(pattern in uncommented for pattern in ['{', '}', '(', ')', ';', '='])
HasCodePattern(line) == line \in {LDeadCode, LLive}
\* the line counts as commented-out code
IsCommentedCode(line) == StartsWithSlashes(line) /\ HasCodePattern(line)

\* "if commented_lines >= 3: self.add_issue(...)": the block is reported at
\* its first line with its number of lines.
FlushBlock(iss, start, count) ==
    IF count >= 3
    THEN Append(iss, [severity |-> "WARNING", category |-> "AI Bias - Dead Code",
                      file |-> FileX, line |-> start, count |-> count])
    ELSE iss

RECURSIVE DeadLineSeqs(_)
DeadLineSeqs(n) ==
    IF n = 0 THEN {<<>>}
    ELSE DeadLineSeqs(n - 1) \cup
         {Append(t, l) : t \in {u \in DeadLineSeqs(n - 1) : Len(u) = n - 1},
                         l \in DeadLineKinds}

DeadInit ==
    /\ dead_lines \in DeadLineSeqs(MaxDeadLines) \ {<<>>}
    /\ dead_i = 1
    /\ commented_code_start = 0
    /\ commented_lines = 0
    /\ dead_issues = <<>>
    /\ deadpc = "scanning"

\* A comment line with a code pattern: the block starts or grows.
CommentedCodeLine ==
    /\ deadpc = "scanning" /\ dead_i <= Len(dead_lines)
    /\ IsCommentedCode(dead_lines[dead_i])
    /\ commented_code_start' = IF commented_code_start = 0 THEN dead_i
                               ELSE commented_code_start
    /\ commented_lines' = commented_lines + 1
    /\ dead_i' = dead_i + 1
    /\ UNCHANGED <<dead_lines, dead_issues, deadpc, notDead>>

\* A comment line without code pattern: the block so far is reported if it
\* has 3 lines or more, and the counter is reset.
ProseCommentLine ==
    /\ deadpc = "scanning" /\ dead_i <= Len(dead_lines)
    /\ StartsWithSlashes(dead_lines[dead_i]) /\ ~HasCodePattern(dead_lines[dead_i])
    /\ dead_issues' = FlushBlock(dead_issues, commented_code_start, commented_lines)
    /\ commented_code_start' = 0
    /\ commented_lines' = 0
    /\ dead_i' = dead_i + 1
    /\ UNCHANGED <<dead_lines, deadpc, notDead>>

\* A line that is no comment: the same report and reset.
OtherLine ==
    /\ deadpc = "scanning" /\ dead_i <= Len(dead_lines)
    /\ ~StartsWithSlashes(dead_lines[dead_i])
    /\ dead_issues' = FlushBlock(dead_issues, commented_code_start, commented_lines)
    /\ commented_code_start' = 0
    /\ commented_lines' = 0
    /\ dead_i' = dead_i + 1
    /\ UNCHANGED <<dead_lines, deadpc, notDead>>

\* The loop over the lines is over; nothing follows it.
DeadReturn ==
    /\ deadpc = "scanning" /\ dead_i > Len(dead_lines)
    /\ deadpc' = "returned"
    /\ UNCHANGED <<dead_lines, dead_i, commented_code_start, commented_lines,
                   dead_issues, notDead>>

DeadNext == CommentedCodeLine \/ ProseCommentLine \/ OtherLine \/ DeadReturn

\* The check not run, for the specifications of the other components.
DeadIdle ==
    /\ dead_lines = <<>>
    /\ dead_i = 1
    /\ commented_code_start = 0
    /\ commented_lines = 0
    /\ dead_issues = <<>>
    /\ deadpc = "scanning"

(***************************************************************************)
(* DuplicationDetectorAgent.find_unused_stubs (agent_duplication.py).      *)
(* vst_code is the text of the *.cpp files of vst/source; the files of     *)
(* src/ and the other files of vst/source are not read.                    *)
(***************************************************************************)
\* most functions declared in global_stubs.c
MaxStubs == 3

\* the function names of the stub file
StubNames == {"logger_init", "udp_cleanup"}

\* The issue add_issue builds for a stub that is never called.
StubIssue(name) ==
    [severity |-> "INFO", category |-> "Unused Code - Stubs", function |-> name]

\* re.search(rf'\b{stub_func}\s*\(', vst_code)
FoundInVstCode(name) == name \in vst_calls

RECURSIVE StubLists(_)
StubLists(n) ==
    IF n = 0 THEN {<<>>}
    ELSE StubLists(n - 1) \cup
         {Append(t, f) : t \in {u \in StubLists(n - 1) : Len(u) = n - 1},
                         f \in StubNames}

StubInit ==
    /\ stub_exists \in BOOLEAN
    /\ stub_functions \in StubLists(MaxStubs)
    /\ vst_calls \in SUBSET StubNames
    /\ other_calls \in SUBSET StubNames
    /\ stub_i = 1
    /\ stub_issues = <<>>
    /\ stubpc = "start"

\* "if not stub_file.exists(): return"
NoStubFile ==
    /\ stubpc = "start" /\ ~stub_exists
    /\ stubpc' = "returned"
    /\ UNCHANGED <<stub_exists, stub_functions, vst_calls, other_calls, stub_i,
                   stub_issues, notStub>>

\* The stub file and the *.cpp files of vst/source are read.
ReadStubFile ==
    /\ stubpc = "start" /\ stub_exists
    /\ stubpc' = "checking"
    /\ UNCHANGED <<stub_exists, stub_functions, vst_calls, other_calls, stub_i,
                   stub_issues, notStub>>

\* A stub with no call in vst_code is reported.
StubNotCalled ==
    /\ stubpc = "checking" /\ stub_i <= Len(stub_functions)
    /\ ~FoundInVstCode(stub_functions[stub_i])
    /\ stub_issues' = Append(stub_issues, StubIssue(stub_functions[stub_i]))
    /\ stub_i' = stub_i + 1
    /\ UNCHANGED <<stub_exists, stub_functions, vst_calls, other_calls, stubpc,
                   notStub>>

\* A stub with a call in vst_code is passed over.
StubCalled ==
    /\ stubpc = "checking" /\ stub_i <= Len(stub_functions)
    /\ FoundInVstCode(stub_functions[stub_i])
    /\ stub_i' = stub_i + 1
    /\ UNCHANGED <<stub_exists, stub_functions, vst_calls, other_calls,
                   stub_issues, stubpc, notStub>>

StubReturn ==
    /\ stubpc = "checking" /\ stub_i > Len(stub_functions)
    /\ stubpc' = "returned"
    /\ UNCHANGED <<stub_exists, stub_functions, vst_calls, other_calls, stub_i,
                   stub_issues, notStub>>

StubNext == NoStubFile \/ ReadStubFile \/ StubNotCalled \/ StubCalled \/ StubReturn

\* The check not run, for the specifications of the other components.
StubIdle ==
    /\ stub_exists = FALSE
    /\ stub_functions = <<>>
    /\ vst_calls = {}
    /\ other_calls = {}
    /\ stub_i = 1
    /\ stub_issues = <<>>
    /\ stubpc = "start"

(***************************************************************************)
(* AIBiasDetectorAgent.check_magic_numbers (agent_ai_bias.py), on one      *)
(* file.  What the code reads off a line is tabulated for a few lines.     *)
(***************************************************************************)
\* most lines of the file read
MaxMagicLines == 3

LSetThree == "    gain = 3;"
LSetBig == "    blockSize = 512;"
LSetHundred == "    percent = 100;"
LConstBig == "    const int blockSize = 512;"
LCallBig == "    prepare(512);"
LSetOneNote == "    gain = 1; // was 512"
MagicLineKinds == {LSetThree, LSetBig, LSetHundred, LConstBig, LCallBig, LSetOneNote}

\* acceptable_numbers = {0, 1, 2, -1, 100, 1000}
acceptable_numbers == {0, 1, 2, -1, 100, 1000}

\* re.findall(r'\b(\d+\.?\d*)\b', line), after the cut at '//'
Literals(line) ==
    CASE line = LSetThree -> <<3>>
      [] line \in {LSetBig, LConstBig, LCallBig} -> <<512>>
      [] line = LSetHundred -> <<100>>
      [] line = LSetOneNote -> <<1>>
\* '=' in line
HasAssign(line) == line # LCallBig
\* one of the two re.search for a constant (an upper-case name or
\* "const type name" before "= number") matches
IsNamedConstant(line, num) == line = LConstBig /\ num = 512

\* The test of the code on one literal of a line.
IsMagic(line, num) ==
    /\ num \notin acceptable_numbers /\ num > 10 /\ HasAssign(line)
    /\ ~IsNamedConstant(line, num)

\* The issues the loop over the literals of line i adds.
MagicIssuesFor(line, i) ==
    LET nums == Literals(line)
        flagged == SelectSeq([k \in 1..Len(nums) |-> [n |-> nums[k], line |-> line]],
                             LAMBDA r : IsMagic(r.line, r.n))
    IN [k \in 1..Len(flagged) |->
           [severity |-> "INFO", category |-> "AI Bias - Magic Number",
            file |-> FileX, line |-> i, number |-> flagged[k].n]]

MagicInit ==
    /\ magic_lines \in FileTexts(MagicLineKinds, MaxMagicLines)
    /\ magic_i = 1
    /\ magic_issues = <<>>
    /\ magicpc = "scanning"

\* A line with a literal that passes the test: its issues are added.
FlagMagicLine ==
    /\ magicpc = "scanning" /\ magic_i <= Len(magic_lines)
    /\ MagicIssuesFor(magic_lines[magic_i], magic_i) # <<>>
    /\ magic_issues' = magic_issues \o MagicIssuesFor(magic_lines[magic_i], magic_i)
    /\ magic_i' = magic_i + 1
    /\ UNCHANGED <<magic_lines, magicpc, notMagic>>

\* A line none of whose literals passes the test.
PassMagicLine ==
    /\ magicpc = "scanning" /\ magic_i <= Len(magic_lines)
    /\ MagicIssuesFor(magic_lines[magic_i], magic_i) = <<>>
    /\ magic_i' = magic_i + 1
    /\ UNCHANGED <<magic_lines, magic_issues, magicpc, notMagic>>

MagicReturn ==
    /\ magicpc = "scanning" /\ magic_i > Len(magic_lines)
    /\ magicpc' = "returned"
    /\ UNCHANGED <<magic_lines, magic_i, magic_issues, notMagic>>

MagicNext == FlagMagicLine \/ PassMagicLine \/ MagicReturn

\* The check not run, for the specifications of the other components.
MagicIdle ==
    /\ magic_lines = <<>>
    /\ magic_i = 1
    /\ magic_issues = <<>>
    /\ magicpc = "scanning"

(***************************************************************************)
(* UIConsistencyAgent.check_layout_consistency (agent_ui_consistency.py),  *)
(* on one file.  What the code reads off a line is tabulated.              *)
(***************************************************************************)
\* most lines of the file read
MaxLayLines == 5

LResizedSig == "void Sp3ctraEditor::resized() {"
LPaintSig == "void Sp3ctraEditor::paint(juce::Graphics& g) {"
LSetBounds == "    gainSlider.setBounds(10, 20, 100, 30);"
LUseWidth == "    auto width = getWidth();"
LBrace == "}"
LayLineKinds == {LResizedSig, LPaintSig, LSetBounds, LUseWidth, LBrace}

\* re.search(resized_pattern, line)
IsResizedSig(line) == line = LResizedSig
\* lines[j].count('{') - lines[j].count('}')
BraceDelta(line) ==
    CASE line \in {LResizedSig, LPaintSig} -> 1
      [] line = LBrace -> -1
      [] OTHER -> 0
\* the matches of the setBounds pattern with four numbers in the line
SetBoundsIn(line) == IF line = LSetBounds THEN 1 ELSE 0
\* 'getWidth()' or 'getHeight()' is in the line
HasSizeReference(line) == line = LUseWidth

\* The inner loop "for j in range(i-1, min(i+50, len(lines)))": resized_code
\* gets lines[j] (line j + 1 of the file) until the brace count is zero at
\* an index j > i.
RECURSIVE resized_code(_, _, _, _, _)
resized_code(ls, i, j, brace_count, acc) ==
    IF j >= (IF i + 50 < Len(ls) THEN i + 50 ELSE Len(ls)) THEN acc
    ELSE LET bc == brace_count + BraceDelta(ls[j + 1])
         IN IF bc = 0 /\ j > i THEN Append(acc, ls[j + 1])
            ELSE resized_code(ls, i, j + 1, bc, Append(acc, ls[j + 1]))

RECURSIVE SetBoundsCount(_)
SetBoundsCount(ls) ==
    IF ls = <<>> THEN 0 ELSE SetBoundsIn(Head(ls)) + SetBoundsCount(Tail(ls))

\* The issues added for the routine whose signature is at line i.
LayoutIssuesFor(ls, i) ==
    LET resized_text == resized_code(ls, i, i - 1, 0, <<>>)
        pixel_coords == SetBoundsCount(resized_text)
        responsive == \E k \in 1..Len(resized_text) : HasSizeReference(resized_text[k])
    IN (IF pixel_coords > 3
        THEN <<[severity |-> "WARNING", category |-> "UI - Layout Hardcoding",
                file |-> FileX, line |-> i]>>
        ELSE <<>>)
       \o (IF ~responsive /\ pixel_coords > 0
           THEN <<[severity |-> "WARNING", category |-> "UI - Non-responsive Layout",
                   file |-> FileX, line |-> i]>>
           ELSE <<>>)

LayInit ==
    /\ lay_lines \in FileTexts(LayLineKinds, MaxLayLines)
    /\ lay_i = 1
    /\ lay_issues = <<>>
    /\ laypc = "scanning"

\* The line is the signature of a resized(): the text of the routine is
\* gathered and examined.
ExamineResized ==
    /\ laypc = "scanning" /\ lay_i <= Len(lay_lines)
    /\ IsResizedSig(lay_lines[lay_i])
    /\ lay_issues' = lay_issues \o LayoutIssuesFor(lay_lines, lay_i)
    /\ lay_i' = lay_i + 1
    /\ UNCHANGED <<lay_lines, laypc, notLay>>

\* Any other line.
SkipLayoutLine ==
    /\ laypc = "scanning" /\ lay_i <= Len(lay_lines)
    /\ ~IsResizedSig(lay_lines[lay_i])
    /\ lay_i' = lay_i + 1
    /\ UNCHANGED <<lay_lines, lay_issues, laypc, notLay>>

LayoutReturn ==
    /\ laypc = "scanning" /\ lay_i > Len(lay_lines)
    /\ laypc' = "returned"
    /\ UNCHANGED <<lay_lines, lay_i, lay_issues, notLay>>

LayNext == ExamineResized \/ SkipLayoutLine \/ LayoutReturn

\* The check not run, for the specifications of the other components.
LayIdle ==
    /\ lay_lines = <<>>
    /\ lay_i = 1
    /\ lay_issues = <<>>
    /\ laypc = "scanning"

(***************************************************************************)
(* Specifications.                                                         *)
(***************************************************************************)
\* The orchestrator running its agents, then main saving the reports.
Init == OrchInit /\ NormIdle /\ ExtIdle /\ DupIdle /\ RecIdle /\ MetIdle /\
        RtIdle /\ SaIdle /\ DeadIdle /\ StubIdle /\ MagicIdle /\ LayIdle
Spec == Init /\ [][OrchNext]_vars

\* The normaliser and the hash applied to span texts.
NormSpecInit == NormInit /\ OrchIdle /\ ExtIdle /\ DupIdle /\ RecIdle /\
                MetIdle /\ RtIdle /\ SaIdle /\ DeadIdle /\ StubIdle /\
                MagicIdle /\ LayIdle
NormSpec == NormSpecInit /\ [][NormNext]_vars

\* extract_functions reading one file line by line.
ExtractSpecInit == ExtInit /\ OrchIdle /\ NormIdle /\ DupIdle /\ RecIdle /\
                   MetIdle /\ RtIdle /\ SaIdle /\ DeadIdle /\ StubIdle /\
                   MagicIdle /\ LayIdle
ExtractSpec == ExtractSpecInit /\ [][ExtNext]_vars

\* find_duplicate_functions over a corpus of three files.
DupSpecInit == DupInit /\ OrchIdle /\ NormIdle /\ ExtIdle /\ RecIdle /\
               MetIdle /\ RtIdle /\ SaIdle /\ DeadIdle /\ StubIdle /\
               MagicIdle /\ LayIdle
DupSpec == DupSpecInit /\ [][DupNext]_vars

\* _generate_recommendations applied to issues of the scanners of the repository.
RecSpecInit == RecInit /\ OrchIdle /\ NormIdle /\ ExtIdle /\ DupIdle /\
               MetIdle /\ RtIdle /\ SaIdle /\ DeadIdle /\ StubIdle /\
               MagicIdle /\ LayIdle
RecSpec == RecSpecInit /\ [][RecNext]_vars

\* CodeMetricsAgent.run over a corpus and a lizard outcome.
MetricsSpecInit == MetInit /\ OrchIdle /\ NormIdle /\ ExtIdle /\ DupIdle /\
                   RecIdle /\ RtIdle /\ SaIdle /\ DeadIdle /\ StubIdle /\
                   MagicIdle /\ LayIdle
MetricsSpec == MetricsSpecInit /\ [][MetNext]_vars

\* check_rt_audio_safety over one PluginProcessor.cpp.
RtSpecInit == RtInit /\ OrchIdle /\ NormIdle /\ ExtIdle /\ DupIdle /\
              RecIdle /\ MetIdle /\ SaIdle /\ DeadIdle /\ StubIdle /\
              MagicIdle /\ LayIdle
RtSpec == RtSpecInit /\ [][RtNext]_vars

\* StaticAnalysisAgent.run with its two external tools.
StaticSpecInit == SaInit /\ OrchIdle /\ NormIdle /\ ExtIdle /\ DupIdle /\
                  RecIdle /\ MetIdle /\ RtIdle /\ DeadIdle /\ StubIdle /\
                  MagicIdle /\ LayIdle
StaticSpec == StaticSpecInit /\ [][SaNext]_vars

\* check_dead_code reading one file line by line.
DeadSpecInit == DeadInit /\ OrchIdle /\ NormIdle /\ ExtIdle /\ DupIdle /\
                RecIdle /\ MetIdle /\ RtIdle /\ SaIdle /\ StubIdle /\
                MagicIdle /\ LayIdle
DeadSpec == DeadSpecInit /\ [][DeadNext]_vars

\* find_unused_stubs over a stub file and the call sites of the corpus.
StubSpecInit == StubInit /\ OrchIdle /\ NormIdle /\ ExtIdle /\ DupIdle /\
                RecIdle /\ MetIdle /\ RtIdle /\ SaIdle /\ DeadIdle /\
                MagicIdle /\ LayIdle
StubSpec == StubSpecInit /\ [][StubNext]_vars

\* check_magic_numbers reading one file line by line.
MagicSpecInit == MagicInit /\ OrchIdle /\ NormIdle /\ ExtIdle /\ DupIdle /\
                 RecIdle /\ MetIdle /\ RtIdle /\ SaIdle /\ DeadIdle /\
                 StubIdle /\ LayIdle
MagicSpec == MagicSpecInit /\ [][MagicNext]_vars

\* check_layout_consistency reading one file line by line.
LayoutSpecInit == LayInit /\ OrchIdle /\ NormIdle /\ ExtIdle /\ DupIdle /\
                  RecIdle /\ MetIdle /\ RtIdle /\ SaIdle /\ DeadIdle /\
                  StubIdle /\ MagicIdle
LayoutSpec == LayoutSpecInit /\ [][LayNext]_vars

(***************************************************************************)
(* Claims about the normaliser.                                            *)
(***************************************************************************)
\* C5: normalize_code is idempotent:
\* normalize_code(normalize_code(x)) = normalize_code(x) for every text x.
C5_NormalizeIdempotent ==
    npc \in {"renormalized", "hashed"} => recanon = canon1

\* C5 witness: a text holding a comment and whitespace has been normalised
\* twice, and the first normalisation shortened it to a text that is not empty.
C5_Witness ==
    /\ npc = "renormalized"
    /\ \E i \in 1..(Len(text) - 1) : text[i] = "/" /\ text[i + 1] = "/"
    /\ \E i \in 1..Len(text) : IsSpace(text[i])
    /\ Len(canon1) < Len(text)
    /\ canon1 # <<>>

\* The token sequence of a text, as a C lexer reads it: comments and
\* whitespace separate tokens and are dropped, a run of identifier
\* characters is one token, "/" and "*" are one-character tokens.  A "/*"
\* that is never closed is read as the two operators.
RECURSIVE SkipToLineEnd(_, _)
SkipToLineEnd(s, i) == IF i > Len(s) \/ s[i] = "\n" THEN i ELSE SkipToLineEnd(s, i + 1)

RECURSIVE Lex(_, _, _)
Lex(s, i, cur) ==
    LET flush == IF cur = <<>> THEN <<>> ELSE <<cur>>
    IN IF i > Len(s) THEN flush
       ELSE IF At(s, i, "/") /\ At(s, i + 1, "/")
            THEN flush \o Lex(s, SkipToLineEnd(s, i + 2), <<>>)
       ELSE IF At(s, i, "/") /\ At(s, i + 1, "*") /\ FindClose(s, i + 2) # 0
            THEN flush \o Lex(s, FindClose(s, i + 2) + 2, <<>>)
       ELSE IF IsSpace(s[i]) THEN flush \o Lex(s, i + 1, <<>>)
       ELSE IF s[i] = "a" THEN Lex(s, i + 1, Append(cur, "a"))
       ELSE flush \o << <<s[i]>> >> \o Lex(s, i + 1, <<>>)

Tokens(s) == Lex(s, 1, <<>>)

\* C6: two span texts with the same token sequence (they differ only in
\* whitespace, indentation or comments) get the same digest.
C6_SameTokensSameDigest ==
    (npc = "hashed" /\ Tokens(text) = Tokens(text2)) => digest1 = digest2

\* C7: two span texts whose token sequences differ get different canonical
\* texts and different digests.
C7_DifferentTokensDifferentDigest ==
    (npc = "hashed" /\ Tokens(text) # Tokens(text2))
        => (canon1 # canon2 /\ digest1 # digest2)

(***************************************************************************)
(* Claims about the orchestrator.                                          *)
(***************************************************************************)
Range(seq) == {seq[i] : i \in 1..Len(seq)}

\* run_all_agents has returned at least once.
Done == pc = "idle" /\ runs >= 1

\* The agent's run() raises on this corpus.
Raises(a) == \E f \in 1..Len(Files) : plan[a][f] = "raise"

\* The findings the corpus holds for the agent, file by file.
FindingAt(a, f) == plan[a][f] \notin {"clean", "raise"}
Found(a) == {Issue(a, plan[a][f], f) : f \in {g \in 1..Len(Files) : FindingAt(a, g)}}

Collected(a, i) == [agent |-> a, issue |-> i] \in Range(all_issues[i.severity])

\* C1: when the run() of one agent raises, every issue of every other agent
\* (one whose run() returns), before or after the failing one in the list,
\* is in all_issues once run_all_agents has returned.
C1_OtherAgentsIssuesCollected ==
    (Done /\ \E a \in AgentSet : Raises(a))
        => \A b \in AgentSet : ~Raises(b) => \A i \in Found(b) : Collected(b, i)

\* C1 witness: the second agent failed, and the agents before and after it
\* each had a finding, which was collected.
C1_Witness ==
    /\ Done
    /\ Raises(CodeDuplication)
    /\ ~Raises(ArchitectureReview) /\ Found(ArchitectureReview) # {}
    /\ ~Raises(AIBiasDetection) /\ Found(AIBiasDetection) # {}
    /\ \A i \in Found(ArchitectureReview) \cup Found(AIBiasDetection) :
          \E b \in AgentSet : Collected(b, i)

\* C2: an agent that raises on file X after it produced an issue for file Y
\* still has its issue for Y in all_issues at the end of run_all_agents.
C2_FailingAgentsIssuesKept ==
    Done => \A a \in AgentSet :
               (FindingAt(a, 1) /\ plan[a][2] = "raise")
                   => Collected(a, Issue(a, plan[a][1], 1))

\* Lexicographic order of the category and file strings the model uses.
StringOrder ==
    << "AI Bias - Placeholder Code", "Architecture - Audio Layer",
       "Architecture - Global State", "Code Duplication - Config Handling",
       "N/A", "UI - Layout Hardcoding", "Unused Code - Stubs",
       "vst/source/PluginEditor.cpp", "vst/source/PluginProcessor.cpp" >>

Rank(s) == CHOOSE i \in 1..Len(StringOrder) : StringOrder[i] = s

\* i comes no later than j under the key (category, file, line).
KeyLeq(i, j) ==
    \/ Rank(i.category) < Rank(j.category)
    \/ /\ i.category = j.category
       /\ \/ Rank(i.file) < Rank(j.file)
          \/ i.file = j.file /\ i.line <= j.line

SortedByKey(items) ==
    \A k \in 1..(Len(items) - 1) : KeyLeq(items[k].issue, items[k + 1].issue)

\* C3: the consolidated issue list is sorted by (category, file, line), so
\* that it does not depend on the order in which the agents were merged.
C3_ConsolidatedSortedByKey ==
    Done => \A s \in Severities : SortedByKey(all_issues[s])

\* C4: running an agent a second time over the unchanged corpus yields the
\* issue list of its first run: the accumulator holds nothing more after the
\* second run() than after the first.
C4_SecondRunSameIssues ==
    [][ (pc = "running" /\ runs = 2 /\ idx <= Len(agents) /\ idx' = idx + 1)
            => issues'[agents[idx]] = issues[agents[idx]] ]_vars

\* No issue of any severity has been collected.
NoIssues == \A s \in Severities : all_issues[s] = <<>>

\* save_reports has run: the recommendations and the summary are written.
Saved == pc \in {"saved", "exited"}

\* C13: when no issue of any severity has been collected,
\* _generate_recommendations returns exactly one element, the positive
\* "code quality looks good" message.
C13_NoIssuesOnePositiveRecommendation ==
    (Saved /\ NoIssues) => recommendations = <<RecGood>>

\* C13 witness: every agent ran to its end over a corpus without findings,
\* and the report was generated with the one positive recommendation.
C13_Witness ==
    /\ Saved /\ NoIssues
    /\ \A a \in AgentSet : ~Raises(a) /\ a \in Range(individual_reports)
    /\ Len(recommendations) = 1

\* C16: the exit code of the review command is non-zero when an ERROR issue
\* was collected and zero when none was.
C16_ExitCodeReflectsErrors ==
    pc = "exited" => (exit_code # 0 <=> all_issues["ERROR"] # <<>>)

\* What the result state holds outside the issue buckets that names the
\* agent: an entry of individual_reports or of the summary's agents_run.
NamedOutsideIssues(a) ==
    a \in Range(individual_reports) \/ a \in Range(summary.agents_run)

\* C18: after run_all_agents in which an agent failed, the result state
\* holds a diagnostic note for the failure, apart from the issue buckets,
\* so that the saved output tells which agent failed.
C18_FailureHasDiagnosticNote ==
    Saved => \A a \in AgentSet : Raises(a) => NamedOutsideIssues(a)

(***************************************************************************)
(* Claims about the duplication detector.                                  *)
(***************************************************************************)
\* The root identifier of the file a group member lies in.
RootOf(path) == (CHOOSE f \in Range(corpus) : f.path = path).root
Roots(locations) == {RootOf(locations[k].file) : k \in 1..Len(locations)}

\* The group was reported as a cross-boundary duplication.
ReportedCrossBoundary(locations) ==
    \E k \in 1..Len(dup_issues) :
        /\ dup_issues[k].category = "Code Duplication - Cross-boundary"
        /\ dup_issues[k].locations =
               [j \in 1..Len(locations) |->
                    [file |-> locations[j].file, line |-> locations[j].line]]

\* C8: a group of two or more spans with one digest is reported as
\* cross-boundary if and only if its members' files belong to two or more
\* roots; a group inside one root is never reported as cross-boundary.
C8_CrossBoundaryIffTwoRoots ==
    dpc = "classified" =>
        \A g \in 1..Len(hash_map) :
            Len(hash_map[g].locations) >= 2 =>
                (ReportedCrossBoundary(hash_map[g].locations)
                    <=> Cardinality(Roots(hash_map[g].locations)) >= 2)

\* The braces of the file are balanced: the depth never goes below zero and
\* ends at zero.
RECURSIVE Depth(_, _)
Depth(ls, n) ==
    IF n = 0 THEN 0 ELSE Depth(ls, n - 1) + CountOpen(ls[n]) - CountClose(ls[n])
Balanced(ls) == Depth(ls, Len(ls)) = 0 /\ \A n \in 1..Len(ls) : Depth(ls, n) >= 0

SpanStart(fn) == fn.value.line
SpanEnd(fn) == fn.value.line + Len(fn.value.code) - 1

\* C9: for a file with balanced braces, the spans extract_functions returns
\* have, in the order returned, strictly increasing start lines and line
\* ranges that do not overlap.
C9_SpansIncreasingDisjoint ==
    (epc = "returned" /\ Balanced(lines)) =>
        \A k \in 1..(Len(ext.functions) - 1) :
            /\ SpanStart(ext.functions[k]) < SpanStart(ext.functions[k + 1])
            /\ SpanEnd(ext.functions[k]) < SpanStart(ext.functions[k + 1])

\* The function addOne is in the file, verbatim or with a comment.
HasAddOne(f) == \E k \in 1..Len(f.lines) : f.lines[k] \in {LAddOne, LAddOneDoc}

\* C10: when addOne appears verbatim (modulo comments) in one file of the
\* plugin tree and one file of the standalone tree, the pipeline produces
\* exactly one duplicate group for it, cross-boundary, with two members.
C10_AddOneOneCrossBoundaryGroup ==
    (/\ dpc = "classified"
     /\ HasAddOne(corpus[1]) /\ HasAddOne(corpus[2]) /\ ~HasAddOne(corpus[3]))
        => LET g == {k \in 1..Len(dup_issues) : dup_issues[k].function = "addOne"}
           IN /\ Cardinality(g) = 1
              /\ \A k \in g :
                    /\ dup_issues[k].category = "Code Duplication - Cross-boundary"
                    /\ Len(dup_issues[k].locations) = 2

(***************************************************************************)
(* Claims about the recommendations.                                       *)
(***************************************************************************)
\* A realtime-safety category is among the categories of the ERROR and
\* WARNING issues the function is given.
RtSafetyPresent ==
    \E sev \in {"ERROR", "WARNING"} :
        \E cat \in Categories(given_issues, sev) : "RT-Audio Safety" \in KeysIn(cat)

Deductions(mt) ==
    LET ratio == MetricsGet(mt, "avg_comment_ratio", Ratio(0, 0))
    IN (IF MetricsGet(mt, "avg_ccn", 0) > 10 THEN {"average complexity"} ELSE {})
       \cup (IF Len(MetricsGet(mt, "complex_functions", <<>>)) > 5
             THEN {"complex functions"} ELSE {})
       \cup (IF Below(ratio, 1, 10) THEN {"low comment ratio"} ELSE {})
       \cup (IF Above(ratio, 1, 2) THEN {"high comment ratio"} ELSE {})

\* Metric values to compare the reported ones with.
MetricValues ==
    { [avg_ccn |-> c, complex_functions |-> Repeat(ComplexFunc, k),
       avg_comment_ratio |-> r] :
        c \in {0, 10, 11}, k \in 0..MaxFuncs,
        r \in {Ratio(0, 1), Ratio(1, 4), Ratio(1, 2), Ratio(3, 4), Ratio(1, 1)} }

\* C11: for every combination of metric values the quality score lies in
\* 0..100, and metric values for which more deduction conditions hold (the
\* others unchanged) never have a higher score.
C11_ScoreBoundedAndMonotone ==
    mpc = "reported" =>
        /\ score \in 0..100
        /\ \A m2 \in MetricValues :
              Deductions(metrics) \subseteq Deductions(m2) => quality_score(m2) <= score

\* C11 witness: a report over two files for which three deduction conditions hold at once,
\* with the score they leave.
C11_Witness ==
    /\ mpc = "reported"
    /\ Len(met_files) = 2
    /\ Cardinality(Deductions(metrics)) = 3
    /\ score = 55

\* C12: whenever the corpus yields no issue of any severity, the quality
\* score is exactly 100.
C12_NoIssuesScoreIs100 ==
    (mpc = "reported" /\ met_issues = <<>>) => score = 100

(***************************************************************************)
(* Claims about the realtime-safety check.                                 *)
(***************************************************************************)
\* The lines of the file that lie inside the body of processBlock: after
\* the signature line and before the closing brace.
InProcessBlock(k) ==
    /\ ProcessBlockMatch(rt_lines) # <<>>
    /\ ProcessBlockMatch(rt_lines)[1] < k /\ k < ProcessBlockMatch(rt_lines)[2]

\* The lines of the body that hold a blocking-lock statement.
LockLinesInBody == {k \in 1..Len(rt_lines) : InProcessBlock(k) /\ rt_lines[k] = LLock}

\* C14: when the body of processBlock holds exactly one blocking-lock
\* statement and no other forbidden operation, the check emits exactly one
\* issue, of severity ERROR and category RT-Audio Safety, whose file is the
\* file of the function and whose line is the line number of the statement
\* in that file.
C14_OneLockOneIssueAtItsLine ==
    (rtpc = "done" /\ Cardinality(LockLinesInBody) = 1)
        => /\ Len(rt_issues) = 1
           /\ rt_issues[1].severity = "ERROR"
           /\ rt_issues[1].category = "RT-Audio Safety"
           /\ rt_issues[1].file = FileX
           /\ rt_issues[1].line \in LockLinesInBody

(***************************************************************************)
(* Claims about the tool-backed scanners.                                  *)
(***************************************************************************)
\* The tool is not installed, or a run of it timed out.
ToolAbsentOrTimedOut(tool) ==
    IF tool = ClangTidy
    THEN \/ ~sa_tools.clang_tidy_available
         \/ \E f \in 1..Len(Files) : sa_tools.clang_tidy[f] = "timeout"
    ELSE \/ ~sa_tools.cppcheck_available
         \/ sa_tools.cppcheck = "timeout"

IssuesOf(tool) == SelectSeq(sa_issues, LAMBDA i : i.checker = tool)
NotesOn(tool) == SelectSeq(sa_notes, LAMBDA n : n.tool = tool)

\* C17: when an external tool of a tool-backed scanner is absent or a run
\* of it times out, run() returns normally, the scanner holds no issue from
\* that tool, and exactly one note about the skipped tool is produced.
C17_SkippedToolNoIssuesOneNote ==
    sapc = "returned" =>
        \A tool \in {ClangTidy, Cppcheck} :
            ToolAbsentOrTimedOut(tool)
                => (IssuesOf(tool) = <<>> /\ Len(NotesOn(tool)) = 1)

(***************************************************************************)
(* Claims about the dead-code check.                                       *)
(***************************************************************************)
\* The maximal runs of consecutive commented-code lines of the file, each
\* as <<first line, last line>>.
MaximalRuns ==
    { r \in (1..Len(dead_lines)) \X (1..Len(dead_lines)) :
        /\ r[1] <= r[2]
        /\ \A k \in r[1]..r[2] : IsCommentedCode(dead_lines[k])
        /\ (r[1] = 1 \/ ~IsCommentedCode(dead_lines[r[1] - 1]))
        /\ (r[2] = Len(dead_lines) \/ ~IsCommentedCode(dead_lines[r[2] + 1])) }

\* C19: every maximal run of 3 or more consecutive commented-code lines
\* yields exactly one dead-code issue, at the first line of the run and
\* with the length of the run, wherever the run lies in the file (a run
\* that ends at the last line included); shorter runs yield none.
C19_EveryLongRunReportedOnce ==
    deadpc = "returned" =>
        /\ { <<dead_issues[k].line, dead_issues[k].count>> : k \in 1..Len(dead_issues) }
             = { <<r[1], r[2] - r[1] + 1>> : r \in {q \in MaximalRuns : q[2] - q[1] + 1 >= 3} }
        /\ Len(dead_issues) = Cardinality({q \in MaximalRuns : q[2] - q[1] + 1 >= 3})

(***************************************************************************)
(* Claim about the closing of spans in extract_functions.                  *)
(***************************************************************************)
\* C20: a span closes on the first line, the signature line itself
\* included, at which the cumulative brace depth is back to zero: after
\* any line read, no span is open at brace depth zero, so that the next
\* signature line can open a new span.
C20_SpanClosesAtDepthZero ==
    (epc = "scanning" /\ ext.current_func # "") => ext.brace_count # 0

(***************************************************************************)
(* Claims about files whose last function never closes.                    *)
(***************************************************************************)
\* extract_functions has returned with a function still open at a positive
\* brace depth: its depth never came back to zero before the end of file.
UnclosedAtReturn ==
    epc = "returned" /\ ext.current_func # "" /\ ext.brace_count > 0

\* C21: when the brace depth of a function never returns to zero before the
\* end of the file, extract_functions still returns (no error), its result
\* is the result for the part of the file before that function opened, and
\* no span starting at or after that function is in the result.
C21_UnclosedFunctionKeepsEarlierSpans ==
    UnclosedAtReturn =>
        /\ ext.functions =
               extract_functions(SubSeq(lines, 1, ext.current_func_start - 1))
        /\ \A k \in 1..Len(ext.functions) :
               SpanEnd(ext.functions[k]) < ext.current_func_start

C21_Witness ==
    /\ UnclosedAtReturn
    /\ Len(ext.functions) >= 1
    /\ ext.current_func_start < Len(lines)

(***************************************************************************)
(* Claim about the size of a reported duplicate group.                     *)
(***************************************************************************)
\* The numbers the message of a duplicate issue holds.  The message is
\* f"Function '{locations[0][1]}' duplicated between VST and standalone.
\* Consider refactoring into shared library.": it holds the name of the
\* function and no number.
MessageNumbers(issue) == {}

\* C22: for a duplicate group with more members than the report cap, the
\* issue of the group lists at most the cap number of member locations and
\* its message carries the full member count.  The cap taken is one less
\* than the number of files, the largest cap a group of the corpus exceeds.
C22_LargeGroupCappedWithFullCount ==
    dpc = "classified" =>
        \A k \in 1..Len(hash_map) :
            LET members == hash_map[k].locations
                cap == Len(corpus) - 1
            IN (Len(members) > cap /\ CrossBoundary(members)) =>
                   \E i \in 1..Len(dup_issues) :
                       /\ dup_issues[i].function = members[1].name
                       /\ Len(dup_issues[i].locations) <= cap
                       /\ Len(members) \in MessageNumbers(dup_issues[i])

(***************************************************************************)
(* Claim about the unused stubs.                                           *)
(***************************************************************************)
\* the issues reported for a stub name
StubIssuesFor(name) ==
    {k \in 1..Len(stub_issues) : stub_issues[k].function = name}

\* C23: find_unused_stubs emits exactly one INFO issue for each function
\* name declared in the stub file that has no call site in the rest of the
\* corpus, and none for a name that has a call site somewhere in it.
C23_OneIssuePerUncalledStub ==
    (stubpc = "returned" /\ stub_exists) =>
        \A k \in 1..Len(stub_functions) :
            LET name == stub_functions[k]
            IN IF name \in vst_calls \cup other_calls
               THEN StubIssuesFor(name) = {}
               ELSE /\ Cardinality(StubIssuesFor(name)) = 1
                    /\ \A i \in StubIssuesFor(name) : stub_issues[i].severity = "INFO"

(***************************************************************************)
(* Claim about the magic numbers.                                          *)
(***************************************************************************)
\* the literal num of line i has been flagged
MagicFlagged(i, num) ==
    \E k \in 1..Len(magic_issues) :
        magic_issues[k].line = i /\ magic_issues[k].number = num

\* C24: check_magic_numbers flags a numeric literal of a line if and only
\* if the literal is not in the allow-list {0,1,2,-1,100,1000}, the line is
\* an assignment and the line is not a named-constant declaration; so every
\* literal outside the allow-list (3, for example) in a plain assignment is
\* flagged.
C24_FlaggedIffOutsideAllowList ==
    magicpc = "returned" =>
        \A i \in 1..Len(magic_lines) :
            \A k \in 1..Len(Literals(magic_lines[i])) :
                LET num == Literals(magic_lines[i])[k]
                IN MagicFlagged(i, num) <=>
                       /\ num \notin acceptable_numbers
                       /\ HasAssign(magic_lines[i])
                       /\ ~IsNamedConstant(magic_lines[i], num)

(***************************************************************************)
(* Claims about the recommendations as a function of the categories.       *)
(***************************************************************************)
\* The categories present among the ERROR and WARNING issues together.
ErrorWarningCategories(all) == Categories(all, "ERROR") \cup Categories(all, "WARNING")

C28_NoPositiveMessageWithErrors ==
    (gpc = "returned" /\ given_issues["ERROR"] # <<>>)
        => \A k \in 1..Len(given_recs) : given_recs[k] # RecGood

(***************************************************************************)
(* Claim about the score as a sum of deductions.                           *)
(***************************************************************************)
\* The deduction that goes with a line of the quality assessment.
DeductionOf(line) ==
    CASE line = "Average complexity above recommended threshold" -> 20
      [] line = "functions with high complexity" -> 15
      [] line = "Low comment ratio (< 10%)" -> 10
      [] line = "High comment ratio (> 50%), may indicate over-documentation" -> 5

RECURSIVE SumDeductions(_)
SumDeductions(ls) ==
    IF ls = <<>> THEN 0 ELSE DeductionOf(Head(ls)) + SumDeductions(Tail(ls))

\* The deductions that the metric values call for: 20 if the average
\* complexity exceeds 10, 15 if more than 5 functions have high complexity,
\* 10 if the average comment ratio is below 0.1 or else 5 if it is above 0.5.
DueDeductions(mt) ==
    (IF "average complexity" \in Deductions(mt) THEN 20 ELSE 0)
    + (IF "complex functions" \in Deductions(mt) THEN 15 ELSE 0)
    + (IF "low comment ratio" \in Deductions(mt) THEN 10
       ELSE IF "high comment ratio" \in Deductions(mt) THEN 5 ELSE 0)

\* C26: the quality score equals 100 minus the sum of the fixed deductions
\* that apply, and the deductions listed with the score sum to 100 minus
\* the score.
C26_ScoreIs100MinusDeductions ==
    mpc = "reported" =>
        /\ score = 100 - DueDeductions(metrics)
        /\ SumDeductions(assessment_lines(metrics)) = 100 - score

C26_Witness ==
    /\ mpc = "reported"
    /\ Len(met_files) >= 1
    /\ Deductions(metrics) = {"average complexity", "high comment ratio"}
    /\ score = 75
    /\ Len(assessment_lines(metrics)) = 2


(***************************************************************************)
(* Claim about the loop over the agents and the failure of the run.        *)
(***************************************************************************)
\* C27: whichever agents raise in run(), run_all_agents does not propagate
\* the exception: while it runs, every step invokes the agent at idx and
\* goes on to the next one, so that each registered agent is invoked once,
\* in the order of registration, and the function returns after the last;
\* the run fails (a status other than 0) only by a failure of save_reports.
C27_EveryAgentInvokedOnceRunNeverAborts ==
    [][ /\ (pc = "running" /\ idx <= Len(agents))
            => (pc' = "running" /\ idx' = idx + 1)
        /\ (pc = "running" /\ idx > Len(agents))
            => (pc' = "idle" /\ idx = Len(agents) + 1)
        /\ (pc' = "failed" /\ pc # "failed") => (pc = "idle" /\ runs >= 1)
        /\ (pc' = "exited" /\ pc # "exited") => exit_code' = 0 ]_vars

C27_Witness ==
    /\ pc = "exited" /\ exit_code = 0
    /\ Raises(ArchitectureReview) /\ Raises(UIConsistency)
    /\ ~Raises(CodeDuplication) /\ CodeDuplication \in Range(individual_reports)
    /\ idx = Len(agents) + 1


(***************************************************************************)
(* Claim about the functions already extracted.                            *)
(***************************************************************************)
\* The line read closes the open span, and the text of the span exceeds
\* the minimum size.
ClosesLargeSpan ==
    /\ epc = "scanning" /\ lineNo <= Len(lines)
    /\ Closes(ext, lines[lineNo])
    /\ CodeLen(Append(ext.func_lines, lines[lineNo])) > MinFuncLen

\* C29: every function whose span closes and whose text exceeds the minimum
\* size is added to the result with its own text and start line, and the
\* functions extracted before stay as they are: the result grows by one
\* span at each such close.
C29_ClosedSpanAddedEarlierKept ==
    [][ ClosesLargeSpan =>
            ext'.functions =
                Append(ext.functions,
                       [name |-> ext.current_func,
                        value |-> [code |-> Append(ext.func_lines, lines[lineNo]),
                                   line |-> ext.current_func_start]]) ]_vars


(***************************************************************************)
(* Claim about the text examined for a layout routine.                     *)
(***************************************************************************)
\* The brace depth after line n of the file, counted from line s on.
RECURSIVE LayDepth(_, _)
LayDepth(s, n) ==
    IF n < s THEN 0 ELSE LayDepth(s, n - 1) + BraceDelta(lay_lines[n])

\* The line on which the routine whose signature is at line s closes: the
\* first line at which its brace depth is back to zero (the last line of
\* the file when it never is).
RoutineEnd(s) ==
    LET closing == {n \in s..Len(lay_lines) : LayDepth(s, n) = 0}
    IN IF closing = {} THEN Len(lay_lines)
       ELSE CHOOSE n \in closing : \A m \in closing : n <= m

\* the setBounds calls in the lines of the routine
SetBoundsOfRoutine(s) == SetBoundsCount(SubSeq(lay_lines, s, RoutineEnd(s)))

\* C30: the text examined for a resized() routine holds only the lines
\* from its signature line through the line on which its brace depth
\* returns to zero: a routine is reported for hardcoded or non-responsive
\* layout only on account of setBounds calls between these lines, never of
\* calls after its closing brace.
C30_OnlyTheRoutineIsExamined ==
    laypc = "returned" =>
        \A k \in 1..Len(lay_issues) :
            /\ lay_issues[k].category = "UI - Non-responsive Layout"
                   => SetBoundsOfRoutine(lay_issues[k].line) > 0
            /\ lay_issues[k].category = "UI - Layout Hardcoding"
                   => SetBoundsOfRoutine(lay_issues[k].line) > 3

=============================================================================
